---- MODULE Spec2Model ----
(***************************************************************************)
(* A model of the constraint-solver crate: the CSP data model (domains,    *)
(* assignments, constraints, Csp), the backtracking engine with its        *)
(* heuristics, the forward-checking solver and the AC-3 / MAC solver.      *)
(*                                                                         *)
(* Variables of the crate are numbered 1..MaxVars (their names), values    *)
(* are the integers 0..MaxVal.  An Option<X> is a sequence of length at    *)
(* most one: <<>> is None and <<x>> is Some(x).                            *)
(***************************************************************************)
EXTENDS Integers, Sequences, FiniteSets, TLC

(***************************************************************************)
(* Bounds of the model.                                                    *)
(***************************************************************************)
MaxVars == 3
MaxVal == 2
MaxScopeLen == 3
MaxTarget == 4
MaxCollLen == 3
MaxLimit == 2
MaxCons == 2
MaxBuildCons == 1

VarIds == 1..MaxVars
Values == 0..MaxVal

\* Sequences over S of length at most n.
SeqsUpTo(S, n) == UNION {[1..k -> S] : k \in 0..n}

Range(s) == {s[i] : i \in DOMAIN s}

VARIABLES
    \* ---- constraint.rs: one constraint judged against one assignment
    con,        \* the constraint under test
    asg,        \* the assignment it is judged against
    satOut,     \* Option of the last is_satisfied outcome
    \* ---- domain.rs: one domain value and the result of the last operation
    dkind,      \* the representation (HashSet, BTreeSet, Vec, SortedVec)
    dom,        \* the receiver
    dop,        \* the last operation applied to the receiver
    dres        \* Option of the domain the last operation returned

conVars == <<con, asg, satOut>>
domVars == <<dkind, dom, dop, dres>>

(***************************************************************************)
(* assignment.rs: Assignment<T> is a HashMap<Variable<T>, T>, here a       *)
(* function from the set of assigned variables to their values.            *)
(***************************************************************************)
EmptyAssignment == [v \in {} |-> 0]

assign(A, var, value) ==
    [v \in (DOMAIN A) \cup {var} |-> IF v = var THEN value ELSE A[v]]

unassign(A, var) == [v \in (DOMAIN A) \ {var} |-> A[v]]

is_assigned(A, var) == var \in DOMAIN A

\* Option<&T>
get(A, var) == IF var \in DOMAIN A THEN <<A[var]>> ELSE <<>>

size(A) == Cardinality(DOMAIN A)

is_complete_some(A, num_variables) == num_variables > 0 /\ size(A) = num_variables

is_complete_but_one(A, num_variables) == size(A) >= num_variables - 1

is_complete(A, num_variables) == size(A) = num_variables

Assignments == UNION {[S -> Values] : S \in SUBSET VarIds}

(***************************************************************************)
(* constraint.rs: a constraint is its scope (variables) and a predicate.   *)
(* The predicate closures of the factories are told apart by kind; "lt"    *)
(* and "never" stand for predicates a caller hands to Constraint::new.     *)
(***************************************************************************)
Constraint(kind, variables, target) ==
    [kind |-> kind, variables |-> variables, target |-> target]

\* common::all_different: insert every assigned value into `seen`, fail on
\* the first value already there.
RECURSIVE all_different_from(_, _, _, _)
all_different_from(variables, A, i, seen) ==
    IF i > Len(variables) THEN TRUE
    ELSE LET value == get(A, variables[i]) IN
         IF value = <<>> THEN all_different_from(variables, A, i + 1, seen)
         ELSE IF value[1] \in seen THEN FALSE
         ELSE all_different_from(variables, A, i + 1, seen \cup {value[1]})

\* (mutant) compares each value with the one before it only
all_different_adjacent(variables, A) ==
    \A i \in 1..(Len(variables) - 1) :
        get(A, variables[i]) = <<>> \/ get(A, variables[i]) # get(A, variables[i + 1])

all_different(variables, A) == all_different_from(variables, A, 1, {})

\* (mutant) the two values are equal
diff_inverted(var1, var2, A) ==
    LET val1 == get(A, var1)
        val2 == get(A, var2)
    IN  IF val1 # <<>> /\ val2 # <<>> THEN val1[1] = val2[1] ELSE TRUE

\* common::diff
diff(var1, var2, A) ==
    LET val1 == get(A, var1)
        val2 == get(A, var2)
    IN  IF val1 # <<>> /\ val2 # <<>> THEN val1[1] # val2[1] ELSE TRUE

\* common::same
same(var1, var2, A) ==
    LET val1 == get(A, var1)
        val2 == get(A, var2)
    IN  IF val1 # <<>> /\ val2 # <<>> THEN val1[1] = val2[1] ELSE TRUE

\* common::sum: the values of the assigned scope members, added up in scope
\* order (filter_map + sum), compared with the target.
RECURSIVE sum_from(_, _, _)
sum_from(variables, A, i) ==
    IF i > Len(variables) THEN 0
    ELSE LET value == get(A, variables[i]) IN
         (IF value = <<>> THEN 0 ELSE value[1]) + sum_from(variables, A, i + 1)

\* (mutant) accepts every sum that does not exceed the target
sum_at_most(variables, target, A) == sum_from(variables, A, 1) <= target

sum(variables, target, A) == sum_from(variables, A, 1) = target

\* A caller's binary predicate handed to Constraint::new: var1 < var2.
lt(var1, var2, A) ==
    LET val1 == get(A, var1)
        val2 == get(A, var2)
    IN  IF val1 # <<>> /\ val2 # <<>> THEN val1[1] < val2[1] ELSE TRUE

Abs(x) == IF x < 0 THEN -x ELSE x

\* the rows only, without the test of the diagonals
queens_closure_rows_only(var_i, var_j, i, j, A) ==
    LET row_i == get(A, var_i)
        row_j == get(A, var_j)
    IN  IF row_i # <<>> /\ row_j # <<>> THEN row_i[1] # row_j[1] ELSE TRUE

\* examples/queens.rs: the closure create_queens_csp hands to
\* Constraint::new for the columns i < j; var_i and var_j are Q{i}, Q{j}
queens_closure(var_i, var_j, i, j, A) ==
    LET row_i == get(A, var_i)
        row_j == get(A, var_j)
    IN  IF row_i # <<>> /\ row_j # <<>>
        THEN LET col_diff == j - i
                 row_diff == row_j[1] - row_i[1]
             IN  IF row_i[1] = row_j[1] THEN FALSE
                 ELSE IF Abs(col_diff) = Abs(row_diff) THEN FALSE
                 ELSE TRUE
        ELSE TRUE

\* The closure stored in the constraint, applied to an assignment.
predicate(c, A) ==
    CASE c.kind = "all_different" -> all_different(c.variables, A)
      [] c.kind = "diff" -> diff(c.variables[1], c.variables[2], A)
      [] c.kind = "same" -> same(c.variables[1], c.variables[2], A)
      [] c.kind = "sum" -> sum(c.variables, c.target, A)
      [] c.kind = "lt" -> lt(c.variables[1], c.variables[2], A)
      [] c.kind = "queens" ->
             queens_closure(c.variables[1], c.variables[2],
                            c.variables[1] - 1, c.variables[2] - 1, A)
      [] c.kind = "never" -> FALSE

\* (mutant) hands every assignment to the predicate, complete or not
is_satisfied_skip_check(c, A) == [result |-> predicate(c, A), preds |-> 1]

\* Constraint::is_satisfied, with the number of predicate evaluations it made.

is_satisfied_run(c, A) ==
    LET all_assigned ==
            \A i \in 1..Len(c.variables) : is_assigned(A, c.variables[i])
    IN  IF all_assigned
        THEN [result |-> predicate(c, A), preds |-> 1]
        ELSE [result |-> TRUE, preds |-> 0]

is_satisfied(c, A) == is_satisfied_run(c, A).result

involves(c, variable) == variable \in Range(c.variables)

(***************************************************************************)
(* The constraints and assignments the constraint checks range over.       *)
(***************************************************************************)
Scopes == SeqsUpTo(VarIds, MaxScopeLen)

BinaryScopes == [1..2 -> VarIds]

ConstraintChoices ==
    {Constraint("all_different", s, 0) : s \in Scopes}
    \cup {Constraint("sum", s, t) : s \in Scopes, t \in 0..MaxTarget}
    \cup {Constraint(k, s, 0) : k \in {"diff", "same", "lt"}, s \in BinaryScopes}
    \cup {Constraint("never", s, 0) : s \in SeqsUpTo(VarIds, 1) \cup BinaryScopes}

ConUnused == con = Constraint("never", <<>>, 0) /\ asg = EmptyAssignment /\ satOut = <<>>

InitCon ==
    /\ con \in ConstraintChoices
    /\ asg = EmptyAssignment
    /\ satOut = <<>>

\* Assignment::assign on the assignment under test
ConAssign ==
    \E v \in VarIds, x \in Values :
        /\ satOut = <<>>
        /\ asg' = assign(asg, v, x)
        /\ satOut' = <<>>
        /\ UNCHANGED con

\* Assignment::unassign on the assignment under test
ConUnassign ==
    \E v \in DOMAIN asg :
        /\ satOut = <<>>
        /\ asg' = unassign(asg, v)
        /\ satOut' = <<>>
        /\ UNCHANGED con

\* Constraint::is_satisfied on the constraint and assignment under test
ConCheck ==
    /\ satOut = <<>>
    /\ satOut' = <<is_satisfied_run(con, asg)>>
    /\ UNCHANGED <<con, asg>>

(***************************************************************************)
(* csp/domain.rs: the four representations of Domain<T>.  A domain value   *)
(* is the sequence its values() returns.                                   *)
(***************************************************************************)
DomainKinds == {"HashSet", "BTreeSet", "Vec", "SortedVec"}

Contains(s, value) == \E i \in DOMAIN s : s[i] = value

\* ---- HashSetDomain: std HashSet, a set whose iteration order is arbitrary
RECURSIVE hash_collect(_, _, _)
hash_collect(values_in, i, acc) ==
    IF i > Len(values_in) THEN acc
    ELSE hash_collect(values_in, i + 1,
             IF Contains(acc, values_in[i]) THEN acc ELSE Append(acc, values_in[i]))

HashSetDomain_new(values_in) == hash_collect(values_in, 1, <<>>)

HashSetDomain_contains(self, value) == Contains(self, value)

HashSetDomain_size(self) == Len(self)

HashSetDomain_remove(self, value) ==
    LET Keep(v) == v # value IN SelectSeq(self, Keep)

HashSetDomain_restrict_to(self, values_to_keep) ==
    LET keep_set == HashSetDomain_new(values_to_keep)
        Keep(v) == Contains(keep_set, v)
    IN  hash_collect(SelectSeq(self, Keep), 1, <<>>)

\* ---- BTreeSetDomain: std BTreeSet, a set iterated in ascending order
RECURSIVE btree_insert(_, _, _)
btree_insert(s, value, i) ==
    IF i > Len(s) THEN Append(s, value)
    ELSE IF s[i] = value THEN s
    ELSE IF s[i] > value
         THEN SubSeq(s, 1, i - 1) \o <<value>> \o SubSeq(s, i, Len(s))
    ELSE btree_insert(s, value, i + 1)

RECURSIVE btree_collect(_, _, _)
btree_collect(values_in, i, acc) ==
    IF i > Len(values_in) THEN acc
    ELSE btree_collect(values_in, i + 1, btree_insert(acc, values_in[i], 1))

BTreeSetDomain_new(values_in) == btree_collect(values_in, 1, <<>>)

BTreeSetDomain_contains(self, value) == Contains(self, value)

BTreeSetDomain_size(self) == Len(self)

BTreeSetDomain_remove(self, value) ==
    LET Keep(v) == v # value IN SelectSeq(self, Keep)

BTreeSetDomain_restrict_to(self, values_to_keep) ==
    LET keep_set == BTreeSetDomain_new(values_to_keep)
        Keep(v) == Contains(keep_set, v)
    IN  btree_collect(SelectSeq(self, Keep), 1, <<>>)

\* ---- VecDomain: the values as collected, in insertion order
VecDomain_new(values_in) == values_in

VecDomain_contains(self, value) == Contains(self, value)

VecDomain_size(self) == Len(self)

VecDomain_remove(self, value) ==
    LET Keep(v) == v # value IN SelectSeq(self, Keep)

VecDomain_restrict_to(self, values_to_keep) ==
    LET keep_vec == values_to_keep
        Keep(v) == Contains(keep_vec, v)
    IN  SelectSeq(self, Keep)

\* ---- SortedVecDomain: a sorted Vec without duplicates
RECURSIVE sort_insert(_, _, _)
sort_insert(s, value, i) ==
    IF i > Len(s) THEN Append(s, value)
    ELSE IF s[i] > value
         THEN SubSeq(s, 1, i - 1) \o <<value>> \o SubSeq(s, i, Len(s))
    ELSE sort_insert(s, value, i + 1)

\* Vec::sort
RECURSIVE sort_from(_, _, _)
sort_from(s, i, acc) ==
    IF i > Len(s) THEN acc ELSE sort_from(s, i + 1, sort_insert(acc, s[i], 1))

sort(s) == sort_from(s, 1, <<>>)

\* Vec::dedup: drop every element equal to the one before it
RECURSIVE dedup_from(_, _, _)
dedup_from(s, i, acc) ==
    IF i > Len(s) THEN acc
    ELSE dedup_from(s, i + 1,
             IF acc # <<>> /\ acc[Len(acc)] = s[i] THEN acc ELSE Append(acc, s[i]))

dedup(s) == dedup_from(s, 1, <<>>)

SortedVecDomain_new(values_in) == dedup(sort(values_in))

\* slice::binary_search over positions 1..Len(s): [ok, index]
RECURSIVE binary_search_from(_, _, _, _)
binary_search_from(s, value, left, right) ==
    IF left >= right THEN [ok |-> FALSE, index |-> left]
    ELSE LET mid == left + ((right - left) \div 2) IN
         IF s[mid] < value THEN binary_search_from(s, value, mid + 1, right)
         ELSE IF s[mid] > value THEN binary_search_from(s, value, left, mid)
         ELSE [ok |-> TRUE, index |-> mid]

binary_search(s, value) == binary_search_from(s, value, 1, Len(s) + 1)

SortedVecDomain_contains(self, value) == binary_search(self, value).ok

SortedVecDomain_size(self) == Len(self)

SortedVecDomain_remove(self, value) ==
    LET found == binary_search(self, value) IN
    IF found.ok
    THEN SubSeq(self, 1, found.index - 1) \o SubSeq(self, found.index + 1, Len(self))
    ELSE self

\* The inner `while let Some(keep) = current_keep` of restrict_to for one
\* value of the receiver: the position reached in keep_vec and whether the
\* value was pushed.
RECURSIVE sorted_keep_scan(_, _, _)
sorted_keep_scan(keep_vec, k, value) ==
    IF k > Len(keep_vec) THEN [k |-> k, pushed |-> FALSE]
    ELSE IF keep_vec[k] < value THEN sorted_keep_scan(keep_vec, k + 1, value)
    ELSE IF keep_vec[k] = value THEN [k |-> k + 1, pushed |-> TRUE]
    ELSE [k |-> k, pushed |-> FALSE]

RECURSIVE sorted_restrict_from(_, _, _, _, _)
sorted_restrict_from(self, keep_vec, i, k, new_values) ==
    IF i > Len(self) THEN new_values
    ELSE LET scan == sorted_keep_scan(keep_vec, k, self[i])
             pushed == IF scan.pushed THEN Append(new_values, self[i]) ELSE new_values
         IN  IF scan.k > Len(keep_vec) THEN pushed
             ELSE sorted_restrict_from(self, keep_vec, i + 1, scan.k, pushed)

\* (mutant) merges against keep_vec as given, without sorting it
SortedVecDomain_restrict_to_unsorted(self, values_to_keep) ==
    sorted_restrict_from(self, values_to_keep, 1, 1, <<>>)

SortedVecDomain_restrict_to(self, values_to_keep) ==
    sorted_restrict_from(self, sort(values_to_keep), 1, 1, <<>>)

\* ---- the Domain trait, dispatched on the representation
Domain_new(kind, values_in) ==
    CASE kind = "HashSet" -> HashSetDomain_new(values_in)
      [] kind = "BTreeSet" -> BTreeSetDomain_new(values_in)
      [] kind = "Vec" -> VecDomain_new(values_in)
      [] kind = "SortedVec" -> SortedVecDomain_new(values_in)

Domain_contains(kind, self, value) ==
    CASE kind = "HashSet" -> HashSetDomain_contains(self, value)
      [] kind = "BTreeSet" -> BTreeSetDomain_contains(self, value)
      [] kind = "Vec" -> VecDomain_contains(self, value)
      [] kind = "SortedVec" -> SortedVecDomain_contains(self, value)

Domain_size(kind, self) ==
    CASE kind = "HashSet" -> HashSetDomain_size(self)
      [] kind = "BTreeSet" -> BTreeSetDomain_size(self)
      [] kind = "Vec" -> VecDomain_size(self)
      [] kind = "SortedVec" -> SortedVecDomain_size(self)

Domain_is_empty(kind, self) == Domain_size(kind, self) = 0

Domain_remove(kind, self, value) ==
    CASE kind = "HashSet" -> HashSetDomain_remove(self, value)
      [] kind = "BTreeSet" -> BTreeSetDomain_remove(self, value)
      [] kind = "Vec" -> VecDomain_remove(self, value)
      [] kind = "SortedVec" -> SortedVecDomain_remove(self, value)

Domain_restrict_to(kind, self, values_to_keep) ==
    CASE kind = "HashSet" -> HashSetDomain_restrict_to(self, values_to_keep)
      [] kind = "BTreeSet" -> BTreeSetDomain_restrict_to(self, values_to_keep)
      [] kind = "Vec" -> VecDomain_restrict_to(self, values_to_keep)
      [] kind = "SortedVec" -> SortedVecDomain_restrict_to(self, values_to_keep)

\* from_range(start, end) of every representation collects start..=end
from_range(kind, start, end) ==
    Domain_new(kind, [i \in 1..(IF end >= start THEN end - start + 1 ELSE 0) |-> start + i - 1])

(***************************************************************************)
(* The domain under test: built by new or from_range, then a run of        *)
(* remove / restrict_to calls, the caller replacing the domain by the      *)
(* returned one (domains.insert(var, new_domain)) as the solvers do.       *)
(***************************************************************************)
Collections == SeqsUpTo(Values, MaxCollLen)

NoOp == [op |-> "none", value |-> 0, keep |-> <<>>]

DomUnused == dkind = "Vec" /\ dom = <<>> /\ dop = NoOp /\ dres = <<>>

InitDom ==
    /\ dkind \in DomainKinds
    /\ \/ \E c \in Collections : dom = Domain_new(dkind, c)
       \/ \E a \in Values, b \in Values : dom = from_range(dkind, a, b)
    /\ dop = NoOp
    /\ dres = <<>>

\* Domain::remove on the domain under test
DomRemove ==
    \E v \in Values :
        /\ dres = <<>>
        /\ dop' = [op |-> "remove", value |-> v, keep |-> <<>>]
        /\ dres' = <<Domain_remove(dkind, dom, v)>>
        /\ UNCHANGED <<dkind, dom>>

\* Domain::restrict_to on the domain under test
DomRestrictTo ==
    \E S \in Collections :
        /\ dres = <<>>
        /\ dop' = [op |-> "restrict_to", value |-> 0, keep |-> S]
        /\ dres' = <<Domain_restrict_to(dkind, dom, S)>>
        /\ UNCHANGED <<dkind, dom>>

\* The caller stores the returned domain in place of the old one.
DomReplace ==
    /\ dres # <<>>
    /\ dom' = dres[1]
    /\ dop' = NoOp
    /\ dres' = <<>>
    /\ UNCHANGED dkind

\* the orders in which the elements of s can be listed
OrdersOf(s) ==
    {p \in [DOMAIN s -> Range(s)] : \E f \in [DOMAIN s -> DOMAIN s] :
        /\ \A i, j \in DOMAIN s : f[i] = f[j] => i = j
        /\ \A i \in DOMAIN s : p[i] = s[f[i]]}

\* what values() of a domain can return: a HashSet iterates in an
\* arbitrary order, the other representations in the order they store
Domain_values(kind, self) ==
    IF kind = "HashSet" THEN OrdersOf(self) ELSE {self}

\* the orders in which a HashMap with the keys 1..n can iterate them
KeyOrders(n) == OrdersOf([i \in 1..n |-> i])

(***************************************************************************)
(* csp.rs: the Csp under solution.  domains maps each registered variable  *)
(* to its domain (the sequence its values() returns), cspVars is the order *)
(* in which get_variables() iterates the keys of that HashMap, constraints *)
(* is the Vec of constraints in the order add_constraint pushed them.      *)
(***************************************************************************)
VARIABLES
    domKind,     \* the domain representation the Csp is instantiated with
    cspVars,     \* get_variables(): the registered variables, in HashMap order
    domains,     \* Csp::domains
    constraints, \* Csp::constraints
    built        \* the last add_variable / add_constraint call and its Result

cspState == <<domKind, cspVars, domains, constraints, built>>

get_domain(var) == IF var \in DOMAIN domains THEN <<domains[var]>> ELSE <<>>

get_constraints_for_variable(var) ==
    LET Involves(c) == involves(c, var) IN SelectSeq(constraints, Involves)

get_variables == cspVars

num_variables == Cardinality(DOMAIN domains)

\* constraints.iter().all(..): stops at the first unsatisfied constraint;
\* preds counts the predicates evaluated on the way
RECURSIVE is_consistent_from(_, _)
is_consistent_from(A, i) ==
    IF i > Len(constraints) THEN [result |-> TRUE, preds |-> 0]
    ELSE LET r == is_satisfied_run(constraints[i], A)
         IN  IF ~r.result THEN [result |-> FALSE, preds |-> r.preds]
             ELSE LET rest == is_consistent_from(A, i + 1)
                  IN  [result |-> rest.result, preds |-> r.preds + rest.preds]

is_consistent_run(A) == is_consistent_from(A, 1)

is_consistent(A) == is_consistent_run(A).result

is_solution(A) == is_complete(A, num_variables) /\ is_consistent(A)

(***************************************************************************)
(* csp.rs: building a Csp.  built records the last construction call: its  *)
(* arguments and whether it returned Ok.                                   *)
(***************************************************************************)
NoConstraint == Constraint("never", <<>>, 0)

NoBuild == [call |-> "none", ok |-> TRUE, var |-> 0, domain |-> <<>>,
            constraint |-> NoConstraint]

\* the collections the domains of add_variable are built from
BuildDomains == {<<1>>, <<0, 1>>}

\* the names add_variable and add_constraint are called with
BuildNames == {1, 2, 3}

\* the constraints handed to add_constraint: any scope of up to two
\* variables, registered or not
BuildCatalog == {Constraint("all_different", s, 0) : s \in SeqsUpTo(BuildNames, 2)}

\* the orders in which a HashMap with the keys S can iterate them
HashOrders(S) ==
    {p \in [1..Cardinality(S) -> S] : \A i, j \in DOMAIN p : p[i] = p[j] => i = j}

\* HashMap::insert without the contains_key test: replaces the domain
add_variable_overwrite ==
    \E variable \in BuildNames, c \in BuildDomains :
        LET domain == Domain_new(domKind, c) IN
        /\ \E vs \in Domain_values(domKind, domain) :
               domains' = [v \in DOMAIN domains \cup {variable} |->
                               IF v = variable THEN vs ELSE domains[v]]
        /\ cspVars' \in HashOrders(DOMAIN domains')
        /\ built' = [call |-> "add_variable", ok |-> variable \notin DOMAIN domains,
                     var |-> variable, domain |-> domain, constraint |-> NoConstraint]
        /\ UNCHANGED <<domKind, constraints>>

\* Csp::add_variable
add_variable ==
    \E variable \in BuildNames, c \in BuildDomains :
        LET domain == Domain_new(domKind, c) IN
        IF variable \in DOMAIN domains
        THEN /\ built' = [call |-> "add_variable", ok |-> FALSE, var |-> variable,
                          domain |-> domain, constraint |-> NoConstraint]
             /\ UNCHANGED <<domKind, cspVars, domains, constraints>>
        ELSE /\ \E vs \in Domain_values(domKind, domain) :
                    domains' = [v \in DOMAIN domains \cup {variable} |->
                                    IF v = variable THEN vs ELSE domains[v]]
             /\ cspVars' \in HashOrders(DOMAIN domains')
             /\ built' = [call |-> "add_variable", ok |-> TRUE, var |-> variable,
                          domain |-> domain, constraint |-> NoConstraint]
             /\ UNCHANGED <<domKind, constraints>>

\* push without the test of the scope
add_constraint_unchecked ==
    \E constraint \in BuildCatalog :
        /\ Len(constraints) < MaxBuildCons
        /\ constraints' = Append(constraints, constraint)
        /\ built' = [call |-> "add_constraint", ok |-> TRUE, var |-> 0,
                     domain |-> <<>>, constraint |-> constraint]
        /\ UNCHANGED <<domKind, cspVars, domains>>

\* Csp::add_constraint; the list is kept to MaxBuildCons constraints
add_constraint ==
    \E constraint \in BuildCatalog :
        IF \E i \in DOMAIN constraint.variables :
               constraint.variables[i] \notin DOMAIN domains
        THEN /\ built' = [call |-> "add_constraint", ok |-> FALSE, var |-> 0,
                          domain |-> <<>>, constraint |-> constraint]
             /\ UNCHANGED <<domKind, cspVars, domains, constraints>>
        ELSE /\ Len(constraints) < MaxBuildCons
             /\ constraints' = Append(constraints, constraint)
             /\ built' = [call |-> "add_constraint", ok |-> TRUE, var |-> 0,
                          domain |-> <<>>, constraint |-> constraint]
             /\ UNCHANGED <<domKind, cspVars, domains>>

(***************************************************************************)
(* solver/utils.rs and solver/heuristics.rs: variable selection and value  *)
(* ordering.  A selection returns an Option of a variable.                 *)
(***************************************************************************)
Unassigned(A) == {i \in DOMAIN cspVars : ~is_assigned(A, cspVars[i])}

first_unassigned(A) ==
    LET idx == Unassigned(A)
    IN  IF idx = {} THEN <<>>
        ELSE <<cspVars[CHOOSE i \in idx : \A j \in idx : i <= j]>>

domain_order(var, domain, A) == domain

\* the number of values of var's domain that violate no constraint
\* involving var when added to the assignment
mrv_remaining(A, var) ==
    LET cs == get_constraints_for_variable(var)
        Valid(value) == \A k \in DOMAIN cs : is_satisfied(cs[k], assign(A, var, value))
    IN  Len(SelectSeq(domains[var], Valid))

\* min_by_key: the first of the unassigned variables with the least count
minimum_remaining_values(A) ==
    LET idx == Unassigned(A)
    IN  IF idx = {} THEN <<>>
        ELSE <<cspVars[CHOOSE i \in idx :
                   /\ \A j \in idx : mrv_remaining(A, cspVars[i]) <= mrv_remaining(A, cspVars[j])
                   /\ \A j \in idx : j < i =>
                          mrv_remaining(A, cspVars[i]) < mrv_remaining(A, cspVars[j])]>>

\* solver.rs: the count of Solver::minimum_remaining_values, which probes
\* every constraint of the Csp
Solver_mrv_remaining(A, var) ==
    LET Valid(value) == is_consistent(assign(A, var, value))
    IN  Len(SelectSeq(domains[var], Valid))

\* Solver::minimum_remaining_values
Solver_minimum_remaining_values(A) ==
    LET idx == Unassigned(A)
    IN  IF idx = {} THEN <<>>
        ELSE <<cspVars[CHOOSE i \in idx :
                   /\ \A j \in idx :
                          Solver_mrv_remaining(A, cspVars[i]) <= Solver_mrv_remaining(A, cspVars[j])
                   /\ \A j \in idx : j < i =>
                          Solver_mrv_remaining(A, cspVars[i]) < Solver_mrv_remaining(A, cspVars[j])]>>

\* the degree score of var: over the constraints involving it, the number
\* of scope positions that hold an unassigned variable
RECURSIVE degree_from(_, _, _)
degree_from(A, cs, k) ==
    IF k > Len(cs) THEN 0
    ELSE LET Open(v) == ~is_assigned(A, v)
         IN  Len(SelectSeq(cs[k].variables, Open)) + degree_from(A, cs, k + 1)

degree_score(A, var) == degree_from(A, get_constraints_for_variable(var), 1)

\* max_by_key: the last of the unassigned variables with the greatest score
degree_heuristic(A) ==
    LET idx == Unassigned(A)
    IN  IF idx = {} THEN <<>>
        ELSE <<cspVars[CHOOSE i \in idx :
                   /\ \A j \in idx : degree_score(A, cspVars[i]) >= degree_score(A, cspVars[j])
                   /\ \A j \in idx : j > i =>
                          degree_score(A, cspVars[i]) > degree_score(A, cspVars[j])]>>

\* mrv_degree: the count of values of var that keep the Csp consistent
mrv_degree_remaining(A, var) ==
    LET Valid(value) == is_consistent(assign(A, var, value))
    IN  Len(SelectSeq(domains[var], Valid))

\* mrv_degree: among the unassigned variables with min_remaining values
\* left, max_by_key of the degree score (the last maximum)
mrv_degree(A) ==
    LET idx == Unassigned(A)
        cand == {i \in idx : \A j \in idx :
                     mrv_degree_remaining(A, cspVars[i]) <= mrv_degree_remaining(A, cspVars[j])}
    IN  IF idx = {} THEN <<>>
        ELSE <<cspVars[CHOOSE i \in cand :
                   /\ \A j \in cand : degree_score(A, cspVars[i]) >= degree_score(A, cspVars[j])
                   /\ \A j \in cand : j > i =>
                          degree_score(A, cspVars[i]) > degree_score(A, cspVars[j])]>>

\* the values of other_var's domain that the assignment extended by
\* var = value and other_var = other_value makes inconsistent
lcv_ruled_out(A, var, value, other_var) ==
    LET test == assign(A, var, value)
        Bad(other_value) == ~is_consistent(assign(test, other_var, other_value))
    IN  Len(SelectSeq(domains[other_var], Bad))

RECURSIVE lcv_count_from(_, _, _, _)
lcv_count_from(A, var, value, i) ==
    IF i > Len(cspVars) THEN 0
    ELSE (IF cspVars[i] # var /\ ~is_assigned(A, cspVars[i])
          THEN lcv_ruled_out(A, var, value, cspVars[i]) ELSE 0)
         + lcv_count_from(A, var, value, i + 1)

\* sort_by_key is a stable sort: positions ordered by (count, position)
least_constraining_value(var, domain, A) ==
    LET n == Len(domain)
        count == [p \in 1..n |-> lcv_count_from(A, var, domain[p], 1)]
        Before(q, p) == count[q] < count[p] \/ (count[q] = count[p] /\ q < p)
        rank == [p \in 1..n |-> Cardinality({q \in 1..n : Before(q, p)}) + 1]
    IN  [k \in 1..n |-> domain[CHOOSE p \in 1..n : rank[p] = k]]

(***************************************************************************)
(* The solvers.  A recursive search is run as a machine with an explicit   *)
(* stack: one frame per active call that is inside its `for value in ..`   *)
(* loop.  pc is "idle" between entry points, "call" when a call of the     *)
(* recursive function is about to run its body, "loop" when the top frame  *)
(* is at the head of its loop, "ret" when a call has just returned ret,    *)
(* and "ac3" while the queue of ac3 is being worked off.                   *)
(***************************************************************************)
VARIABLES
    heur,        \* the select_variable / order_values functions passed in
    plan,        \* the entry points still to be called, in order
    run,         \* the entry point being executed
    limit,       \* find_limited_solutions: limit
    assignment,  \* the &mut Assignment shared by all frames
    solutions,   \* the &mut Vec of solutions
    stack,       \* the frames, innermost last
    pc,
    ret,         \* the bool the last finished call returned
    calls,       \* calls made by the current entry point
    results,     \* what each finished entry point returned
    curDomains,  \* forward checking / MAC: the &mut HashMap of current domains
    domOrder,    \* the order in which that HashMap iterates its keys
    queue        \* ac3: the VecDeque of arcs

solverVars == <<heur, plan, run, limit, assignment, solutions, stack, pc, ret,
                calls, results, curDomains, domOrder, queue>>

vars == <<con, asg, satOut, dkind, dom, dop, dres,
          domKind, cspVars, domains, constraints, built,
          heur, plan, run, limit, assignment, solutions, stack, pc, ret,
          calls, results, curDomains, domOrder, queue>>

harnessVars == <<con, asg, satOut, dkind, dom, dop, dres>>

NoCalls == [select |-> 0, order |-> 0, pred |-> 0, tried |-> 0]

select_variable(A) ==
    CASE heur.select = "first_unassigned" -> first_unassigned(A)
      [] heur.select = "minimum_remaining_values" -> minimum_remaining_values(A)

order_values(var, domain, A) ==
    CASE heur.order = "domain_order" -> domain_order(var, domain, A)
      [] heur.order = "least_constraining_value" -> least_constraining_value(var, domain, A)

\* entry keeps what the call was entered with: the assignment and the
\* domain map its &mut parameters refer to at its first line
Frame(var, values) ==
    [var |-> var, values |-> values, i |-> 1, saved |-> << >>,
     entry |-> [assignment |-> assignment, domains |-> curDomains]]

Top == stack[Len(stack)]

Pop == SubSeq(stack, 1, Len(stack) - 1)

\* the top frame moves on to its next value
Advance == [stack EXCEPT ![Len(stack)].i = @ + 1]

Finished(e) == e \in DOMAIN results

Record(e, value) == [x \in DOMAIN results \cup {e} |-> IF x = e THEN value ELSE results[x]]

Begin(entry) ==
    /\ pc = "idle"
    /\ plan # <<>>
    /\ Head(plan) = entry
    /\ plan' = Tail(plan)
    /\ run' = entry

\* solve_internal(csp, select_variable, order_values, true)
find_all_solutions ==
    /\ Begin("find_all_solutions")
    /\ assignment' = EmptyAssignment
    /\ solutions' = <<>>
    /\ stack' = <<>>
    /\ pc' = "call"
    /\ calls' = NoCalls
    /\ UNCHANGED <<cspState, heur, limit, ret, results, curDomains, domOrder, queue>>

\* solve_internal(csp, select_variable, order_values, false)
find_solution ==
    /\ Begin("find_solution")
    /\ assignment' = EmptyAssignment
    /\ solutions' = <<>>
    /\ stack' = <<>>
    /\ pc' = "call"
    /\ calls' = NoCalls
    /\ UNCHANGED <<cspState, heur, limit, ret, results, curDomains, domOrder, queue>>

\* limit == 0 returns the empty Vec at once
find_limited_solutions ==
    \E k \in 0..MaxLimit :
        /\ Begin("find_limited_solutions")
        /\ limit' = k
        /\ assignment' = EmptyAssignment
        /\ solutions' = <<>>
        /\ stack' = <<>>
        /\ calls' = NoCalls
        /\ IF k = 0
           THEN /\ pc' = "idle"
                /\ results' = Record("find_limited_solutions", <<>>)
           ELSE /\ pc' = "call"
                /\ UNCHANGED results
        /\ UNCHANGED <<cspState, heur, ret, curDomains, domOrder, queue>>

\* the part of backtrack / backtrack_limited after the completeness test:
\* select a variable, order its values and enter the loop
Descend ==
    LET sel == select_variable(assignment)
    IN  IF sel = <<>> \/ get_domain(sel[1]) = <<>>
        THEN /\ ret' = FALSE
             /\ pc' = "ret"
             /\ calls' = [calls EXCEPT !.select = @ + 1]
             /\ UNCHANGED stack
        ELSE /\ stack' = Append(stack,
                     Frame(sel[1], order_values(sel[1], get_domain(sel[1])[1], assignment)))
             /\ pc' = "loop"
             /\ calls' = [calls EXCEPT !.select = @ + 1, !.order = @ + 1]
             /\ UNCHANGED ret

backtrack ==
    /\ pc = "call"
    /\ run \in {"find_all_solutions", "find_solution"}
    /\ IF is_complete(assignment, num_variables)
       THEN /\ solutions' = Append(solutions, assignment)
            /\ ret' = (run = "find_solution")
            /\ pc' = "ret"
            /\ UNCHANGED <<stack, calls>>
       ELSE Descend /\ UNCHANGED solutions
    /\ UNCHANGED <<cspState, heur, plan, run, limit, assignment, results,
                   curDomains, domOrder, queue>>

\* a variant that looks at the limit only after a solution is pushed,
\* and stops one solution late
backtrack_limited_off_by_one ==
    /\ pc = "call"
    /\ run = "find_limited_solutions"
    /\ IF is_complete(assignment, num_variables)
       THEN /\ solutions' = Append(solutions, assignment)
            /\ ret' = (Len(solutions) + 1 > limit)
            /\ pc' = "ret"
            /\ UNCHANGED <<stack, calls>>
       ELSE Descend /\ UNCHANGED solutions
    /\ UNCHANGED <<cspState, heur, plan, run, limit, assignment, results,
                   curDomains, domOrder, queue>>

backtrack_limited ==
    /\ pc = "call"
    /\ run = "find_limited_solutions"
    /\ IF Len(solutions) >= limit
       THEN /\ ret' = TRUE
            /\ pc' = "ret"
            /\ UNCHANGED <<solutions, stack, calls>>
       ELSE IF is_complete(assignment, num_variables)
       THEN /\ solutions' = Append(solutions, assignment)
            /\ ret' = (Len(solutions) + 1 >= limit)
            /\ pc' = "ret"
            /\ UNCHANGED <<stack, calls>>
       ELSE Descend /\ UNCHANGED solutions
    /\ UNCHANGED <<cspState, heur, plan, run, limit, assignment, results,
                   curDomains, domOrder, queue>>

BacktrackRuns == {"find_all_solutions", "find_solution", "find_limited_solutions"}

\* a variant that recurses without the consistency test
try_value_unchecked ==
    /\ pc = "loop"
    /\ run \in BacktrackRuns
    /\ Top.i <= Len(Top.values)
    /\ assignment' = assign(assignment, Top.var, Top.values[Top.i])
    /\ calls' = [calls EXCEPT !.tried = @ + 1]
    /\ pc' = "call"
    /\ UNCHANGED <<cspState, heur, plan, run, limit, solutions, stack, ret, results,
                   curDomains, domOrder, queue>>

\* one turn of `for value in ordered_values`: assign, test consistency,
\* and either recurse or unassign and go on
try_value ==
    /\ pc = "loop"
    /\ run \in BacktrackRuns
    /\ Top.i <= Len(Top.values)
    /\ LET tried == assign(assignment, Top.var, Top.values[Top.i])
           check == is_consistent_run(tried)
       IN  /\ calls' = [calls EXCEPT !.pred = @ + check.preds, !.tried = @ + 1]
           /\ IF check.result
              THEN /\ assignment' = tried
                   /\ pc' = "call"
                   /\ UNCHANGED stack
              ELSE /\ assignment' = unassign(tried, Top.var)
                   /\ stack' = Advance
                   /\ UNCHANGED pc
    /\ UNCHANGED <<cspState, heur, plan, run, limit, solutions, ret, results,
                   curDomains, domOrder, queue>>

\* the loop has run out of values: the call returns false
loop_done ==
    /\ pc = "loop"
    /\ run \in BacktrackRuns
    /\ Top.i > Len(Top.values)
    /\ stack' = Pop
    /\ ret' = FALSE
    /\ pc' = "ret"
    /\ UNCHANGED <<cspState, heur, plan, run, limit, assignment, solutions, calls,
                   results, curDomains, domOrder, queue>>

\* a variant that goes on with the loop whatever the call returned
returned_ignoring_stop ==
    /\ pc = "ret"
    /\ run \in BacktrackRuns
    /\ stack # <<>>
    /\ assignment' = unassign(assignment, Top.var)
    /\ stack' = Advance
    /\ pc' = "loop"
    /\ UNCHANGED <<cspState, heur, plan, run, limit, solutions, ret, calls, results,
                   curDomains, domOrder, queue>>

\* a variant that goes on with the loop without the unassign
returned_without_unassign ==
    /\ pc = "ret"
    /\ run \in BacktrackRuns
    /\ stack # <<>>
    /\ IF ret
       THEN /\ stack' = Pop
            /\ UNCHANGED pc
       ELSE /\ stack' = Advance
            /\ pc' = "loop"
    /\ UNCHANGED <<cspState, heur, plan, run, limit, assignment, solutions, ret, calls,
                   results, curDomains, domOrder, queue>>

\* the recursive call made by the top frame has returned: true is passed
\* up at once, false unassigns the variable and goes on with the loop
returned ==
    /\ pc = "ret"
    /\ run \in BacktrackRuns
    /\ stack # <<>>
    /\ IF ret
       THEN /\ stack' = Pop
            /\ UNCHANGED <<assignment, pc>>
       ELSE /\ assignment' = unassign(assignment, Top.var)
            /\ stack' = Advance
            /\ pc' = "loop"
    /\ UNCHANGED <<cspState, heur, plan, run, limit, solutions, ret, calls, results,
                   curDomains, domOrder, queue>>

\* the outermost call has returned: the entry point hands out its result
\* (find_solution: solutions.into_iter().next())
solved ==
    /\ pc = "ret"
    /\ run \in BacktrackRuns
    /\ stack = <<>>
    /\ results' = Record(run, IF run = "find_solution"
                              THEN (IF solutions = <<>> THEN <<>> ELSE <<solutions[1]>>)
                              ELSE solutions)
    /\ pc' = "idle"
    /\ UNCHANGED <<cspState, heur, plan, run, limit, assignment, solutions, stack, ret,
                   calls, curDomains, domOrder, queue>>

(***************************************************************************)
(* solver/forward_checking.rs: ForwardCheckingSolver.                      *)
(***************************************************************************)
\* domains.keys().filter(unassigned).min_by_key(size): the first, in the
\* iteration order of the map, of the unassigned variables of least size
fc_select_variable(A, doms, order) ==
    LET idx == {i \in DOMAIN order : ~is_assigned(A, order[i])}
        sz(i) == Domain_size(domKind, doms[order[i]])
    IN  IF idx = {} THEN <<>>
        ELSE <<order[CHOOSE i \in idx :
                   /\ \A j \in idx : sz(i) <= sz(j)
                   /\ \A j \in idx : j < i => sz(i) < sz(j)]>>

\* a variant that keeps the values that violate the constraint
fc_valid_values_inverted(A, constraint, var, current_domain) ==
    LET Invalid(value) == ~is_satisfied(constraint, assign(A, var, value))
    IN  SelectSeq(current_domain, Invalid)

\* the values of current_domain that satisfy the constraint when var takes them
fc_valid_values(A, constraint, var, current_domain) ==
    LET Valid(value) == is_satisfied(constraint, assign(A, var, value))
    IN  SelectSeq(current_domain, Valid)

\* the two nested loops of forward_check, from the vi-th variable of the
\* ci-th constraint involving assigned_var on; a wiped-out domain returns
\* false with the domains restricted so far
RECURSIVE forward_check_from(_, _, _, _, _)
forward_check_from(assigned_var, A, doms, ci, vi) ==
    LET cs == get_constraints_for_variable(assigned_var)
    IN  IF ci > Len(cs) THEN [ok |-> TRUE, domains |-> doms]
        ELSE IF vi > Len(cs[ci].variables)
        THEN forward_check_from(assigned_var, A, doms, ci + 1, 1)
        ELSE LET var == cs[ci].variables[vi]
             IN  IF is_assigned(A, var) \/ var = assigned_var
                 THEN forward_check_from(assigned_var, A, doms, ci, vi + 1)
                 ELSE LET valid_values == fc_valid_values(A, cs[ci], var, doms[var])
                      IN  IF valid_values = <<>>
                          THEN [ok |-> FALSE, domains |-> doms]
                          ELSE forward_check_from(assigned_var, A,
                                   [doms EXCEPT ![var] =
                                       Domain_restrict_to(domKind, doms[var], valid_values)],
                                   ci, vi + 1)

forward_check(assigned_var, A, doms) == forward_check_from(assigned_var, A, doms, 1, 1)

\* ForwardCheckingSolver::solve up to its call of backtrack_fc
fc_solve ==
    /\ Begin("fc_solve")
    /\ assignment' = EmptyAssignment
    /\ curDomains' = domains
    /\ domOrder' \in KeyOrders(num_variables)
    /\ solutions' = <<>>
    /\ stack' = <<>>
    /\ pc' = "call"
    /\ calls' = NoCalls
    /\ UNCHANGED <<cspState, heur, limit, ret, results, queue>>

backtrack_fc ==
    /\ pc = "call"
    /\ run = "fc_solve"
    /\ IF is_complete(assignment, num_variables)
       THEN /\ ret' = TRUE
            /\ pc' = "ret"
            /\ UNCHANGED stack
       ELSE LET sel == fc_select_variable(assignment, curDomains, domOrder)
            IN  IF sel = <<>>
                THEN /\ ret' = FALSE
                     /\ pc' = "ret"
                     /\ UNCHANGED stack
                ELSE /\ \E values \in Domain_values(domKind, curDomains[sel[1]]) :
                            stack' = Append(stack, Frame(sel[1], values))
                     /\ pc' = "loop"
                     /\ UNCHANGED ret
    /\ UNCHANGED <<cspState, heur, plan, run, limit, assignment, solutions, calls,
                   results, curDomains, domOrder, queue>>

\* one turn of the loop of backtrack_fc up to the recursive call
fc_try_value ==
    /\ pc = "loop"
    /\ run = "fc_solve"
    /\ Top.i <= Len(Top.values)
    /\ LET tried == assign(assignment, Top.var, Top.values[Top.i])
           check == is_consistent_run(tried)
           fc == forward_check(Top.var, tried, curDomains)
       IN  /\ calls' = [calls EXCEPT !.pred = @ + check.preds, !.tried = @ + 1]
           /\ IF check.result /\ fc.ok
              THEN /\ assignment' = tried
                   /\ curDomains' = fc.domains
                   /\ stack' = [stack EXCEPT ![Len(stack)].saved = <<curDomains>>]
                   /\ pc' = "call"
              ELSE \* *domains = saved_domains; assignment.unassign(&var)
                   /\ assignment' = unassign(tried, Top.var)
                   /\ stack' = Advance
                   /\ UNCHANGED <<curDomains, pc>>
    /\ UNCHANGED <<cspState, heur, plan, run, limit, solutions, ret, results,
                   domOrder, queue>>

fc_loop_done ==
    /\ pc = "loop"
    /\ run = "fc_solve"
    /\ Top.i > Len(Top.values)
    /\ stack' = Pop
    /\ ret' = FALSE
    /\ pc' = "ret"
    /\ UNCHANGED <<cspState, heur, plan, run, limit, assignment, solutions, calls,
                   results, curDomains, domOrder, queue>>

\* a variant that leaves the domain map as the failed call left it
fc_returned_without_restore ==
    /\ pc = "ret"
    /\ run = "fc_solve"
    /\ stack # <<>>
    /\ IF ret
       THEN /\ stack' = Pop
            /\ UNCHANGED <<assignment, pc>>
       ELSE /\ assignment' = unassign(assignment, Top.var)
            /\ stack' = [Advance EXCEPT ![Len(stack)].saved = <<>>]
            /\ pc' = "loop"
    /\ UNCHANGED <<cspState, heur, plan, run, limit, solutions, ret, calls, results,
                   curDomains, domOrder, queue>>

\* the recursive call has returned: true is passed up, false restores the
\* saved domains, unassigns and goes on with the loop
fc_returned ==
    /\ pc = "ret"
    /\ run = "fc_solve"
    /\ stack # <<>>
    /\ IF ret
       THEN /\ stack' = Pop
            /\ UNCHANGED <<assignment, curDomains, pc>>
       ELSE /\ curDomains' = Top.saved[1]
            /\ assignment' = unassign(assignment, Top.var)
            /\ stack' = [Advance EXCEPT ![Len(stack)].saved = <<>>]
            /\ pc' = "loop"
    /\ UNCHANGED <<cspState, heur, plan, run, limit, solutions, ret, calls, results,
                   domOrder, queue>>

fc_solved ==
    /\ pc = "ret"
    /\ run = "fc_solve"
    /\ stack = <<>>
    /\ results' = Record("fc_solve", IF ret THEN <<assignment>> ELSE <<>>)
    /\ pc' = "idle"
    /\ UNCHANGED <<cspState, heur, plan, run, limit, assignment, solutions, stack, ret,
                   calls, curDomains, domOrder, queue>>

(***************************************************************************)
(* solver/arc_consistency.rs: ArcConsistencySolver.  An arc of the queue   *)
(* is <<xi, xj, c>> with c the position of its constraint in constraints.  *)
(***************************************************************************)
\* the queue ac3 starts from: both arcs of every constraint with two variables
RECURSIVE initial_arcs_from(_)
initial_arcs_from(i) ==
    IF i > Len(constraints) THEN <<>>
    ELSE LET vs == constraints[i].variables
         IN  (IF Len(vs) = 2 THEN <<<<vs[1], vs[2], i>>, <<vs[2], vs[1], i>>>> ELSE <<>>)
             \o initial_arcs_from(i + 1)

initial_arcs == initial_arcs_from(1)

\* the arcs pushed after xi was revised against xj: for every constraint
\* involving xi, every variable of it other than xi and xj
RECURSIVE neighbour_arcs_from(_, _, _)
neighbour_arcs_from(xi, xj, i) ==
    IF i > Len(constraints) THEN <<>>
    ELSE LET vs == constraints[i].variables
             Other(arc) == arc[1] # xi /\ arc[1] # xj
         IN  (IF involves(constraints[i], xi)
              THEN SelectSeq([p \in DOMAIN vs |-> <<vs[p], xi, i>>], Other)
              ELSE <<>>)
             \o neighbour_arcs_from(xi, xj, i + 1)

neighbour_arcs(xi, xj) == neighbour_arcs_from(xi, xj, 1)

\* a variant that keeps a value of xi only if every value of xj supports it
revise_all_support(doms, xi, xj, c) ==
    LET xi_domain == doms[xi]
        xj_domain == doms[xj]
        Satisfiable(xi_value) ==
            \A k \in DOMAIN xj_domain :
                is_satisfied(constraints[c],
                             assign(assign(EmptyAssignment, xi, xi_value), xj, xj_domain[k]))
        valid_values == SelectSeq(xi_domain, Satisfiable)
        revised == Len(valid_values) < Len(xi_domain)
    IN  [revised |-> revised,
         domains |-> IF revised
                     THEN [doms EXCEPT ![xi] = Domain_restrict_to(domKind, xi_domain, valid_values)]
                     ELSE doms]

\* a variant that reports a revision whether or not a value was dropped
revise_always_revised(doms, xi, xj, c) ==
    LET xi_domain == doms[xi]
        xj_domain == doms[xj]
        Satisfiable(xi_value) ==
            \E k \in DOMAIN xj_domain :
                is_satisfied(constraints[c],
                             assign(assign(EmptyAssignment, xi, xi_value), xj, xj_domain[k]))
        valid_values == SelectSeq(xi_domain, Satisfiable)
    IN  [revised |-> TRUE,
         domains |-> [doms EXCEPT ![xi] = Domain_restrict_to(domKind, xi_domain, valid_values)]]

\* revise: keep the values of xi that some value of xj supports
revise(doms, xi, xj, c) ==
    LET xi_domain == doms[xi]
        xj_domain == doms[xj]
        Satisfiable(xi_value) ==
            \E k \in DOMAIN xj_domain :
                is_satisfied(constraints[c],
                             assign(assign(EmptyAssignment, xi, xi_value), xj, xj_domain[k]))
        valid_values == SelectSeq(xi_domain, Satisfiable)
        revised == Len(valid_values) < Len(xi_domain)
    IN  [revised |-> revised,
         domains |-> IF revised
                     THEN [doms EXCEPT ![xi] = Domain_restrict_to(domKind, xi_domain, valid_values)]
                     ELSE doms]

\* ArcConsistencySolver::solve up to the first pop of the preprocessing ac3
ac_solve ==
    /\ Begin("ac_solve")
    /\ assignment' = EmptyAssignment
    /\ curDomains' = domains
    /\ domOrder' \in KeyOrders(num_variables)
    /\ queue' = initial_arcs
    /\ solutions' = <<>>
    /\ stack' = <<>>
    /\ pc' = "ac3"
    /\ calls' = NoCalls
    /\ UNCHANGED <<cspState, heur, limit, ret, results>>

\* one turn of `while let Some(..) = queue.pop_front()`
ac3_step ==
    /\ pc = "ac3"
    /\ queue # <<>>
    /\ LET xi == Head(queue)[1]
           xj == Head(queue)[2]
           rev == revise(curDomains, xi, xj, Head(queue)[3])
       IN  /\ curDomains' = rev.domains
           /\ IF rev.revised /\ Domain_is_empty(domKind, rev.domains[xi])
              THEN /\ queue' = <<>>
                   /\ ret' = FALSE
                   /\ pc' = "ac3ret"
              ELSE /\ queue' = Tail(queue) \o
                                (IF rev.revised THEN neighbour_arcs(xi, xj) ELSE <<>>)
                   /\ UNCHANGED <<ret, pc>>
    /\ UNCHANGED <<cspState, heur, plan, run, limit, assignment, solutions, stack,
                   calls, results, domOrder>>

\* the queue is empty: ac3 returns true
ac3_done ==
    /\ pc = "ac3"
    /\ queue = <<>>
    /\ ret' = TRUE
    /\ pc' = "ac3ret"
    /\ UNCHANGED <<cspState, heur, plan, run, limit, assignment, solutions, stack,
                   calls, results, curDomains, domOrder, queue>>

\* solve after the preprocessing: None if ac3 failed, else backtrack_ac
ac_preprocessed ==
    /\ pc = "ac3ret"
    /\ stack = <<>>
    /\ IF ret
       THEN pc' = "call" /\ UNCHANGED results
       ELSE pc' = "idle" /\ results' = Record("ac_solve", <<>>)
    /\ UNCHANGED <<cspState, heur, plan, run, limit, assignment, solutions, stack, ret,
                   calls, curDomains, domOrder, queue>>

backtrack_ac ==
    /\ pc = "call"
    /\ run = "ac_solve"
    /\ IF is_complete(assignment, num_variables)
       THEN /\ ret' = TRUE
            /\ pc' = "ret"
            /\ UNCHANGED stack
       ELSE LET sel == fc_select_variable(assignment, curDomains, domOrder)
            IN  IF sel = <<>>
                THEN /\ ret' = FALSE
                     /\ pc' = "ret"
                     /\ UNCHANGED stack
                ELSE /\ \E values \in Domain_values(domKind, curDomains[sel[1]]) :
                            stack' = Append(stack, Frame(sel[1], values))
                     /\ pc' = "loop"
                     /\ UNCHANGED ret
    /\ UNCHANGED <<cspState, heur, plan, run, limit, assignment, solutions, calls,
                   results, curDomains, domOrder, queue>>

\* a variant that leaves the domain of the assigned variable as it is
maintain_arc_consistency_unrestricted(assigned_var, assigned_value, doms) == doms

\* maintain_arc_consistency up to the first pop of its ac3: the assigned
\* variable keeps the assigned value only
maintain_arc_consistency(assigned_var, assigned_value, doms) ==
    [doms EXCEPT ![assigned_var] =
        Domain_restrict_to(domKind, doms[assigned_var], <<assigned_value>>)]

\* one turn of the loop of backtrack_ac up to the ac3 of maintain_arc_consistency
ac_try_value ==
    /\ pc = "loop"
    /\ run = "ac_solve"
    /\ Top.i <= Len(Top.values)
    /\ LET tried == assign(assignment, Top.var, Top.values[Top.i])
           check == is_consistent_run(tried)
       IN  /\ calls' = [calls EXCEPT !.pred = @ + check.preds, !.tried = @ + 1]
           /\ IF check.result
              THEN /\ assignment' = tried
                   /\ stack' = [stack EXCEPT ![Len(stack)].saved = <<curDomains>>]
                   /\ curDomains' = maintain_arc_consistency(Top.var, Top.values[Top.i],
                                                             curDomains)
                   /\ queue' = initial_arcs
                   /\ pc' = "ac3"
              ELSE /\ assignment' = unassign(tried, Top.var)
                   /\ stack' = Advance
                   /\ UNCHANGED <<curDomains, queue, pc>>
    /\ UNCHANGED <<cspState, heur, plan, run, limit, solutions, ret, results, domOrder>>

\* a variant that leaves the domain map as the failed ac3 left it
mac_returned_without_restore ==
    /\ pc = "ac3ret"
    /\ stack # <<>>
    /\ IF ret
       THEN /\ pc' = "call"
            /\ UNCHANGED <<assignment, stack>>
       ELSE /\ assignment' = unassign(assignment, Top.var)
            /\ stack' = [Advance EXCEPT ![Len(stack)].saved = <<>>]
            /\ pc' = "loop"
    /\ UNCHANGED <<cspState, heur, plan, run, limit, solutions, ret, calls, results,
                   curDomains, domOrder, queue>>

\* maintain_arc_consistency has returned: true recurses, false restores
\* the saved domains, unassigns and goes on with the loop
mac_returned ==
    /\ pc = "ac3ret"
    /\ stack # <<>>
    /\ IF ret
       THEN /\ pc' = "call"
            /\ UNCHANGED <<assignment, curDomains, stack>>
       ELSE /\ curDomains' = Top.saved[1]
            /\ assignment' = unassign(assignment, Top.var)
            /\ stack' = [Advance EXCEPT ![Len(stack)].saved = <<>>]
            /\ pc' = "loop"
    /\ UNCHANGED <<cspState, heur, plan, run, limit, solutions, ret, calls, results,
                   domOrder, queue>>

ac_loop_done ==
    /\ pc = "loop"
    /\ run = "ac_solve"
    /\ Top.i > Len(Top.values)
    /\ stack' = Pop
    /\ ret' = FALSE
    /\ pc' = "ret"
    /\ UNCHANGED <<cspState, heur, plan, run, limit, assignment, solutions, calls,
                   results, curDomains, domOrder, queue>>

ac_returned ==
    /\ pc = "ret"
    /\ run = "ac_solve"
    /\ stack # <<>>
    /\ IF ret
       THEN /\ stack' = Pop
            /\ UNCHANGED <<assignment, curDomains, pc>>
       ELSE /\ curDomains' = Top.saved[1]
            /\ assignment' = unassign(assignment, Top.var)
            /\ stack' = [Advance EXCEPT ![Len(stack)].saved = <<>>]
            /\ pc' = "loop"
    /\ UNCHANGED <<cspState, heur, plan, run, limit, solutions, ret, calls, results,
                   domOrder, queue>>

ac_solved ==
    /\ pc = "ret"
    /\ run = "ac_solve"
    /\ stack = <<>>
    /\ results' = Record("ac_solve", IF ret THEN <<assignment>> ELSE <<>>)
    /\ pc' = "idle"
    /\ UNCHANGED <<cspState, heur, plan, run, limit, assignment, solutions, stack, ret,
                   calls, curDomains, domOrder, queue>>

(***************************************************************************)
(* The Csps the solvers are run on.  A Csp is built by Csp::new, then      *)
(* add_variable for the variables 1..n with a domain built by D::new from  *)
(* a collection, then add_constraint for each constraint of a list.        *)
(***************************************************************************)
Identity(n) == [i \in 1..n |-> i]

\* the collections the domains are built from
DomainChoices == {<<>>, <<1>>, <<0, 1>>, <<1, 1>>, <<2, 0, 1>>}

FullRange == [i \in 1..(MaxVal + 1) |-> i - 1]

\* the constraints over the variables 1..n
BinaryCatalog(n) ==
    {Constraint(k, <<a, b>>, 0) : k \in {"diff", "same"},
                                   a \in 1..n, b \in 1..n}
    \cup {Constraint("lt", <<a, b>>, 0) : a \in 1..n, b \in 1..n}
    \cup {Constraint("sum", <<a, b>>, MaxVal) : a \in 1..n, b \in 1..n}

GlobalCatalog(n) ==
    {Constraint("all_different", Identity(n), 0)}
    \cup {Constraint("sum", Identity(n), t) : t \in {n, MaxVal}}
    \cup {Constraint("sum", <<a>>, 1) : a \in 1..n}

\* every constraint has a scope that is not empty
Catalog(n) ==
    {c \in BinaryCatalog(n) : c.variables[1] < c.variables[2] \/ c.kind = "lt"}
    \cup {c \in GlobalCatalog(n) : c.variables # <<>>}

\* all_different over all the variables, if there are any
AllDifferentLists(n) ==
    {<<c>> : c \in {d \in {Constraint("all_different", Identity(n), 0)} : n > 0}}

\* lists of at most MaxCons constraints
ConstraintLists(n) == SeqsUpTo(Catalog(n), MaxCons)

Heuristics ==
    [select : {"first_unassigned", "minimum_remaining_values"},
     order : {"domain_order", "least_constraining_value"}]

DefaultHeuristics == [select |-> "first_unassigned", order |-> "domain_order"]

\* no entry point has been called yet
SolverIdle(p, h) ==
    /\ heur = h
    /\ plan = p
    /\ run = "none"
    /\ limit = 0
    /\ assignment = EmptyAssignment
    /\ solutions = <<>>
    /\ stack = <<>>
    /\ pc = "idle"
    /\ ret = FALSE
    /\ calls = NoCalls
    /\ results = <<>>
    /\ curDomains = <<>>
    /\ domOrder = <<>>
    /\ queue = <<>>

\* Csp::new, add_variable for 1..n with a domain built from one of the
\* collections raws, add_constraint for each constraint of one of lists
InitCsp(n, kinds, orders, raws, lists) ==
    /\ domKind \in kinds
    /\ cspVars \in orders
    /\ \E raw \in [1..n -> raws] :
           LET made == [v \in 1..n |-> Domain_values(domKind, Domain_new(domKind, raw[v]))]
           IN  domains \in {d \in [1..n -> UNION {made[v] : v \in 1..n}] :
                               \A v \in 1..n : d[v] \in made[v]}
    /\ constraints \in lists
    /\ built = NoBuild

SolverUnused ==
    /\ domKind = "Vec" /\ cspVars = <<>> /\ domains = <<>> /\ constraints = <<>>
    /\ built = NoBuild
    /\ SolverIdle(<<>>, DefaultHeuristics)

BacktrackPlan == <<"find_all_solutions", "find_solution", "find_limited_solutions">>

\* the Csps of the backtracking runs: every kind of domain under a few
\* constraints, every list of constraints over full domains, and unequal
\* domains under every iteration order of the variables or every heuristic
InitBT ==
    \E n \in 0..MaxVars :
        \/ /\ InitCsp(n, DomainKinds, {Identity(n)}, DomainChoices,
                      {<<>>} \cup AllDifferentLists(n))
           /\ SolverIdle(BacktrackPlan, DefaultHeuristics)
        \/ /\ InitCsp(n, {"Vec"}, {Identity(n)}, {FullRange}, ConstraintLists(n))
           /\ SolverIdle(BacktrackPlan, DefaultHeuristics)
        \/ /\ InitCsp(n, {"Vec"}, KeyOrders(n), {<<0, 1>>, <<2, 0, 1>>},
                      SeqsUpTo(Catalog(n), 1))
           /\ SolverIdle(BacktrackPlan, DefaultHeuristics)
        \/ /\ InitCsp(n, {"Vec"}, {Identity(n)}, {<<0, 1>>, <<2, 0, 1>>},
                      SeqsUpTo(Catalog(n), 1))
           /\ \E h \in Heuristics : SolverIdle(BacktrackPlan, h)

NextBT ==
    \/ find_all_solutions /\ UNCHANGED harnessVars
    \/ find_solution /\ UNCHANGED harnessVars
    \/ find_limited_solutions /\ UNCHANGED harnessVars
    \/ backtrack /\ UNCHANGED harnessVars
    \/ backtrack_limited /\ UNCHANGED harnessVars
    \/ try_value /\ UNCHANGED harnessVars
    \/ loop_done /\ UNCHANGED harnessVars
    \/ returned /\ UNCHANGED harnessVars
    \/ solved /\ UNCHANGED harnessVars

\* a chain of binary constraints of one kind over 1..n
ChainLists(n) ==
    {[i \in 1..(IF n > 1 THEN n - 1 ELSE 0) |-> Constraint(k, <<i, i + 1>>, 0)] :
        k \in {"diff", "lt"}}

\* the Csps of the propagating solvers: every list of constraints over full
\* domains and over two-valued domains, and every
\* kind of domain under a few lists of constraints
InitPropagation(p) ==
    /\ \E n \in 0..MaxVars :
        \/ InitCsp(n, {"Vec"}, {Identity(n)}, {FullRange}, ConstraintLists(n))
        \/ InitCsp(n, {"Vec"}, {Identity(n)}, {<<0, 1>>}, ConstraintLists(n))
        \/ InitCsp(n, DomainKinds \ {"HashSet"}, {Identity(n)}, DomainChoices,
                   ChainLists(n) \cup AllDifferentLists(n))
        \/ InitCsp(n, {"HashSet"}, {Identity(n)}, {c \in DomainChoices : Len(c) < 3},
                   ChainLists(n) \cup AllDifferentLists(n))
    /\ SolverIdle(p, DefaultHeuristics)

ForwardCheckingPlan == <<"find_solution", "fc_solve">>

InitFC == InitPropagation(ForwardCheckingPlan)

NextFC ==
    \/ find_solution /\ UNCHANGED harnessVars
    \/ backtrack /\ UNCHANGED harnessVars
    \/ try_value /\ UNCHANGED harnessVars
    \/ loop_done /\ UNCHANGED harnessVars
    \/ returned /\ UNCHANGED harnessVars
    \/ solved /\ UNCHANGED harnessVars
    \/ fc_solve /\ UNCHANGED harnessVars
    \/ backtrack_fc /\ UNCHANGED harnessVars
    \/ fc_try_value /\ UNCHANGED harnessVars
    \/ fc_loop_done /\ UNCHANGED harnessVars
    \/ fc_returned /\ UNCHANGED harnessVars
    \/ fc_solved /\ UNCHANGED harnessVars

ArcConsistencyPlan == <<"ac_solve">>

InitAC == InitPropagation(ArcConsistencyPlan)

NextAC ==
    \/ ac_solve /\ UNCHANGED harnessVars
    \/ ac3_step /\ UNCHANGED harnessVars
    \/ ac3_done /\ UNCHANGED harnessVars
    \/ ac_preprocessed /\ UNCHANGED harnessVars
    \/ backtrack_ac /\ UNCHANGED harnessVars
    \/ ac_try_value /\ UNCHANGED harnessVars
    \/ mac_returned /\ UNCHANGED harnessVars
    \/ ac_loop_done /\ UNCHANGED harnessVars
    \/ ac_returned /\ UNCHANGED harnessVars
    \/ ac_solved /\ UNCHANGED harnessVars

(***************************************************************************)
(* examples/queens.rs: create_queens_csp.        The variable numbered     *)
(* col + 1 is Q{col}; its value is the row of the queen of that column.    *)
(***************************************************************************)
\* the pairs i < j of columns in the order of the two nested loops
queens_pairs(board) ==
    LET P == {p \in (0..(board - 1)) \X (0..(board - 1)) : p[1] < p[2]}
        rank(p) == Cardinality({q \in P : q[1] < p[1] \/ (q[1] = p[1] /\ q[2] < p[2])}) + 1
    IN  [k \in 1..Cardinality(P) |-> CHOOSE p \in P : rank(p) = k]

\* the Csp create_queens_csp(board) returns, its HashMap iterating the
\* variables in one of the given orders
create_queens_csp(board, orders) ==
    /\ domKind = "Vec"
    /\ cspVars \in orders
    /\ domains = [v \in 1..board |-> VecDomain_new([r \in 1..board |-> r - 1])]
    /\ constraints = [k \in DOMAIN queens_pairs(board) |->
                          Constraint("queens", <<queens_pairs(board)[k][1] + 1,
                                                 queens_pairs(board)[k][2] + 1>>, 0)]
    /\ built = NoBuild

\* main.rs: create_queens_csp(4)
Queens4 == 4

\* main.rs: create_queens_csp(8)
Queens8 == 8

\* find_all_backtracking on the 4-queens Csp, under every iteration order
\* of its variables
InitQueens4 ==
    /\ create_queens_csp(Queens4, KeyOrders(Queens4))
    /\ SolverIdle(<<"find_all_solutions">>, DefaultHeuristics)

NextQueens4 ==
    \/ find_all_solutions /\ UNCHANGED harnessVars
    \/ backtrack /\ UNCHANGED harnessVars
    \/ try_value /\ UNCHANGED harnessVars
    \/ loop_done /\ UNCHANGED harnessVars
    \/ returned /\ UNCHANGED harnessVars
    \/ solved /\ UNCHANGED harnessVars

\* some of the orders in which the HashMap of the 8-queens Csp can iterate
\* its variables: Q0..Q7 from any start, upwards or downwards
Queens8Orders ==
    {[k \in 1..Queens8 |-> ((start + k - 1) % Queens8) + 1] : start \in 0..(Queens8 - 1)}
    \cup {[k \in 1..Queens8 |-> ((start + Queens8 - k) % Queens8) + 1] : start \in 0..(Queens8 - 1)}

\* backtrack_search on the 8-queens Csp
InitQueens8 ==
    /\ create_queens_csp(Queens8, Queens8Orders)
    /\ SolverIdle(<<"find_solution">>, DefaultHeuristics)

NextQueens8 ==
    \/ find_solution /\ UNCHANGED harnessVars
    \/ backtrack /\ UNCHANGED harnessVars
    \/ try_value /\ UNCHANGED harnessVars
    \/ loop_done /\ UNCHANGED harnessVars
    \/ returned /\ UNCHANGED harnessVars
    \/ solved /\ UNCHANGED harnessVars

(***************************************************************************)
(* The 2-coloring of a triangle: variables A, B, C (1, 2, 3) with the      *)
(* domain {red, blue} (0, 1) and diff(A,B), diff(B,C), diff(A,C).          *)
(***************************************************************************)
ColoringVariables == <<1, 2, 3>>

ColoringDomain == <<0, 1>>

ColoringConstraints ==
    <<Constraint("diff", <<1, 2>>, 0), Constraint("diff", <<2, 3>>, 0),
      Constraint("diff", <<1, 3>>, 0)>>

\* the four searches of BacktrackingSolver, then the two other solvers,
\* for every representation of the domains and every iteration order; in
\* the MAC search every value of the first variable fails in
\* maintain_arc_consistency, so no recursive call of backtrack_ac returns
InitColoring ==
    /\ InitCsp(Len(ColoringVariables), DomainKinds, KeyOrders(Len(ColoringVariables)),
               {ColoringDomain}, {ColoringConstraints})
    /\ \E h \in Heuristics : SolverIdle(<<"find_solution", "fc_solve", "ac_solve">>, h)

NextColoring ==
    \/ find_solution /\ UNCHANGED harnessVars
    \/ backtrack /\ UNCHANGED harnessVars
    \/ try_value /\ UNCHANGED harnessVars
    \/ loop_done /\ UNCHANGED harnessVars
    \/ returned /\ UNCHANGED harnessVars
    \/ solved /\ UNCHANGED harnessVars
    \/ fc_solve /\ UNCHANGED harnessVars
    \/ backtrack_fc /\ UNCHANGED harnessVars
    \/ fc_try_value /\ UNCHANGED harnessVars
    \/ fc_loop_done /\ UNCHANGED harnessVars
    \/ fc_returned /\ UNCHANGED harnessVars
    \/ fc_solved /\ UNCHANGED harnessVars
    \/ ac_solve /\ UNCHANGED harnessVars
    \/ ac3_step /\ UNCHANGED harnessVars
    \/ ac3_done /\ UNCHANGED harnessVars
    \/ ac_preprocessed /\ UNCHANGED harnessVars
    \/ backtrack_ac /\ UNCHANGED harnessVars
    \/ ac_try_value /\ UNCHANGED harnessVars
    \/ mac_returned /\ UNCHANGED harnessVars
    \/ ac_loop_done /\ UNCHANGED harnessVars
    \/ ac_solved /\ UNCHANGED harnessVars

\* ==== specifications ====
(***************************************************************************)
(* Specifications.                                                         *)
(***************************************************************************)
InitConSpec == InitCon /\ DomUnused /\ SolverUnused

NextCon ==
    \/ ConAssign /\ UNCHANGED <<domVars, cspState, solverVars>>
    \/ ConUnassign /\ UNCHANGED <<domVars, cspState, solverVars>>
    \/ ConCheck /\ UNCHANGED <<domVars, cspState, solverVars>>

SpecCon == InitConSpec /\ [][NextCon]_vars

InitDomSpec == InitDom /\ ConUnused /\ SolverUnused

NextDom ==
    \/ DomRemove /\ UNCHANGED <<conVars, cspState, solverVars>>
    \/ DomRestrictTo /\ UNCHANGED <<conVars, cspState, solverVars>>
    \/ DomReplace /\ UNCHANGED <<conVars, cspState, solverVars>>

SpecDom == InitDomSpec /\ [][NextDom]_vars

\* Csp::new, then any run of add_variable and add_constraint
InitBuild ==
    /\ domKind \in DomainKinds
    /\ cspVars = <<>>
    /\ domains = <<>>
    /\ constraints = <<>>
    /\ built = NoBuild
    /\ SolverIdle(<<>>, DefaultHeuristics)

InitBuildSpec == InitBuild /\ ConUnused /\ DomUnused

NextBuild ==
    \/ add_variable /\ UNCHANGED <<harnessVars, solverVars>>
    \/ add_constraint /\ UNCHANGED <<harnessVars, solverVars>>

SpecBuild == InitBuildSpec /\ [][NextBuild]_vars

\* backtracking runs under every pair of heuristics over Vec domains whose
\* members are listed out of order and more than once
InitRepeats ==
    \E n \in 0..MaxVars :
        /\ InitCsp(n, {"Vec"}, {Identity(n)}, {<<1, 0>>, <<1, 1, 0>>},
                   SeqsUpTo({c \in Catalog(n) : c.kind = "diff"}, 1))
        /\ \E h \in Heuristics : SolverIdle(BacktrackPlan, h)

InitRepeatsSpec == InitRepeats /\ ConUnused /\ DomUnused

SpecRepeats == InitRepeatsSpec /\ [][NextBT]_vars

InitBTSpec == InitBT /\ ConUnused /\ DomUnused

InitColoringSpec == InitColoring /\ ConUnused /\ DomUnused

SpecColoring == InitColoringSpec /\ [][NextColoring]_vars

InitQueens4Spec == InitQueens4 /\ ConUnused /\ DomUnused

SpecQueens4 == InitQueens4Spec /\ [][NextQueens4]_vars

InitQueens8Spec == InitQueens8 /\ ConUnused /\ DomUnused

SpecQueens8 == InitQueens8Spec /\ [][NextQueens8]_vars

SpecBT == InitBTSpec /\ [][NextBT]_vars

InitFCSpec == InitFC /\ ConUnused /\ DomUnused

SpecFC == InitFCSpec /\ [][NextFC]_vars

InitACSpec == InitAC /\ ConUnused /\ DomUnused

SpecAC == InitACSpec /\ [][NextAC]_vars

\* every solver on the Csps of its own runs
NextSolvers ==
    \/ find_all_solutions /\ UNCHANGED harnessVars
    \/ find_solution /\ UNCHANGED harnessVars
    \/ find_limited_solutions /\ UNCHANGED harnessVars
    \/ backtrack /\ UNCHANGED harnessVars
    \/ backtrack_limited /\ UNCHANGED harnessVars
    \/ try_value /\ UNCHANGED harnessVars
    \/ loop_done /\ UNCHANGED harnessVars
    \/ returned /\ UNCHANGED harnessVars
    \/ solved /\ UNCHANGED harnessVars
    \/ fc_solve /\ UNCHANGED harnessVars
    \/ backtrack_fc /\ UNCHANGED harnessVars
    \/ fc_try_value /\ UNCHANGED harnessVars
    \/ fc_loop_done /\ UNCHANGED harnessVars
    \/ fc_returned /\ UNCHANGED harnessVars
    \/ fc_solved /\ UNCHANGED harnessVars
    \/ ac_solve /\ UNCHANGED harnessVars
    \/ ac3_step /\ UNCHANGED harnessVars
    \/ ac3_done /\ UNCHANGED harnessVars
    \/ ac_preprocessed /\ UNCHANGED harnessVars
    \/ backtrack_ac /\ UNCHANGED harnessVars
    \/ ac_try_value /\ UNCHANGED harnessVars
    \/ mac_returned /\ UNCHANGED harnessVars
    \/ ac_loop_done /\ UNCHANGED harnessVars
    \/ ac_returned /\ UNCHANGED harnessVars
    \/ ac_solved /\ UNCHANGED harnessVars

InitSolversSpec == (InitBT \/ InitFC \/ InitAC) /\ ConUnused /\ DomUnused

SpecSolvers == InitSolversSpec /\ [][NextSolvers]_vars

\* each solver on its own over Csps whose variables have an empty or a
\* two-valued domain; the backtracking entry points under every pair of
\* heuristics
EntryPoints == {"find_all_solutions", "find_solution", "find_limited_solutions",
                "fc_solve", "ac_solve"}

InitEmptyDomain ==
    \E n \in 1..MaxVars :
        /\ InitCsp(n, DomainKinds, {Identity(n)}, {<<>>, <<0, 1>>},
                   SeqsUpTo(Catalog(n), 1))
        /\ \/ \E h \in Heuristics, e \in BacktrackRuns : SolverIdle(<<e>>, h)
           \/ \E e \in EntryPoints \ BacktrackRuns : SolverIdle(<<e>>, DefaultHeuristics)

InitEmptyDomainSpec == InitEmptyDomain /\ ConUnused /\ DomUnused

SpecEmptyDomain == InitEmptyDomainSpec /\ [][NextSolvers]_vars

\* the arc-consistency runs of a program that keeps running: the one
\* thread of the solver takes its next step whenever it has one
InitACFair ==
    /\ \E n \in 0..MaxVars :
        \/ InitCsp(n, {"Vec"}, {Identity(n)}, {<<0, 1>>}, ConstraintLists(n))
        \/ InitCsp(n, DomainKinds \ {"HashSet"}, {Identity(n)}, {<<1>>, <<2, 0, 1>>},
                   ChainLists(n) \cup AllDifferentLists(n))
        \/ InitCsp(n, {"HashSet"}, {Identity(n)}, {<<>>, <<0, 1>>},
                   ChainLists(n) \cup AllDifferentLists(n))
    /\ SolverIdle(ArcConsistencyPlan, DefaultHeuristics)

InitACFairSpec == InitACFair /\ ConUnused /\ DomUnused

SpecACFair == InitACFairSpec /\ [][NextAC]_vars /\ WF_vars(NextAC)

(***************************************************************************)
(* Claims about the solvers (SpecSolvers, SpecBT, SpecFC, SpecAC).         *)
(***************************************************************************)
\* the complete assignments that take one value from each variable's domain
CompleteAssignments(doms) ==
    {A \in [DOMAIN doms -> Values] : \A v \in DOMAIN doms : Contains(doms[v], A[v])}

\* the solutions of the Csp whose values lie in the domain map doms
SolutionsWithin(doms) == {A \in CompleteAssignments(doms) : is_consistent(A)}

\* every assignment an entry point has returned (an Option and a Vec are
\* both sequences)
Returned == UNION {Range(results[e]) : e \in DOMAIN results}

NoTwoEqual(s) == \A i, j \in DOMAIN s : i # j => s[i] # s[j]

\* C1: every assignment returned by find_solution, find_all_solutions,
\* find_limited_solutions, ForwardCheckingSolver::solve and
\* ArcConsistencySolver::solve is a solution of the Csp: its size is
\* num_variables and is_consistent holds for it.
C1_ReturnedAreSolutions ==
    \A A \in Returned : size(A) = num_variables /\ is_consistent(A)

C1_Witness ==
    /\ num_variables = MaxVars
    /\ constraints # <<>>
    /\ \E e \in DOMAIN results : e \in {"fc_solve", "ac_solve"} /\ results[e] # <<>>
    /\ curDomains # domains

\* C2 as stated: find_all_solutions returns a list without two equal
\* assignments whose length is the number of distinct complete assignments
\* that satisfy every constraint.
C2_AsStated ==
    Finished("find_all_solutions") =>
        /\ NoTwoEqual(results["find_all_solutions"])
        /\ Len(results["find_all_solutions"]) = Cardinality(SolutionsWithin(domains))

Prefix(s, n) == SubSeq(s, 1, IF n < Len(s) THEN n ELSE Len(s))

\* C3: find_limited_solutions with limit k returns the first min(k, total)
\* elements, in order, of what find_all_solutions returns with the same
\* heuristics; with k = 0 it returns the empty list and calls neither
\* select, order nor a predicate.
C3_LimitedIsPrefix ==
    (Finished("find_all_solutions") /\ Finished("find_limited_solutions")) =>
        /\ results["find_limited_solutions"] = Prefix(results["find_all_solutions"], limit)
        /\ limit = 0 => calls = NoCalls

C3_Witness ==
    /\ Finished("find_all_solutions") /\ Finished("find_limited_solutions")
    /\ limit = MaxLimit
    /\ Len(results["find_all_solutions"]) > MaxLimit
    /\ constraints # <<>>
    /\ heur.select = "minimum_remaining_values"

\* C4: find_solution returns the first element of what find_all_solutions
\* returns with the same heuristics, and none exactly when that list is
\* empty; once find_solution has recorded a complete assignment every
\* call only returns true: the search is never again at a loop or a call,
\* so no further value is tried.
C4_FirstSolutionAndStop ==
    /\ (Finished("find_all_solutions") /\ Finished("find_solution")) =>
           results["find_solution"] = Prefix(results["find_all_solutions"], 1)
    /\ (run = "find_solution" /\ solutions # <<>>) =>
           /\ pc \in {"ret", "idle"}
           /\ ret = TRUE
           /\ Len(solutions) = 1
           /\ assignment = solutions[1]

C4_Witness ==
    /\ run = "find_solution"
    /\ pc = "ret"
    /\ Len(stack) = MaxVars
    /\ solutions # <<>>
    /\ Len(results["find_all_solutions"]) > 1
    /\ calls.tried > MaxVars

\* A extends the partial assignment B
Extends(A, B) == \A v \in DOMAIN B : v \in DOMAIN A /\ A[v] = B[v]

\* C5: ForwardCheckingSolver::solve returns some assignment if and only if
\* backtrack_search (find_solution with first_unassigned and domain_order)
\* does; during the search forward checking has never pruned from the
\* current domains a value of a solution that extends the current assignment.
C5_ForwardCheckingAgrees ==
    /\ (Finished("find_solution") /\ Finished("fc_solve")) =>
           (results["fc_solve"] # <<>> <=> results["find_solution"] # <<>>)
    /\ (run = "fc_solve" /\ pc # "idle") =>
           \A A \in SolutionsWithin(domains) :
               Extends(A, assignment) =>
                   \A v \in DOMAIN domains : Contains(curDomains[v], A[v])

C5_Witness ==
    /\ Finished("find_solution") /\ Finished("fc_solve")
    /\ results["fc_solve"] # <<>>
    /\ results["fc_solve"] # results["find_solution"]
    /\ num_variables = MaxVars
    /\ \E v \in DOMAIN domains : Len(curDomains[v]) < Len(domains[v])

\* the domain map the running ac3 started from: the domains of the Csp in
\* the preprocessing, and in a MAC run the domains saved by the top frame
\* with the assigned variable restricted to the assigned value
Ac3Start ==
    IF stack = <<>> THEN domains
    ELSE maintain_arc_consistency(Top.var, Top.values[Top.i], Top.saved[1])

\* C6: while ac3 runs and when it returns, in the preprocessing and in
\* every MAC run, every current domain is a subset of the domain ac3
\* started from and the solutions within the current domains are the
\* solutions within the domains it started from; and
\* ArcConsistencySolver::solve returns none only if the Csp has no solution.
C6_Ac3KeepsSolutions ==
    /\ pc \in {"ac3", "ac3ret"} =>
           /\ \A v \in DOMAIN domains : Range(curDomains[v]) \subseteq Range(Ac3Start[v])
           /\ SolutionsWithin(curDomains) = SolutionsWithin(Ac3Start)
    /\ (Finished("ac_solve") /\ results["ac_solve"] = <<>>) =>
           SolutionsWithin(domains) = {}

C6_Witness ==
    /\ pc = "ac3ret"
    /\ ret
    /\ stack # <<>>
    /\ num_variables = MaxVars
    /\ \E v \in DOMAIN domains :
           v # Top.var /\ Len(curDomains[v]) < Len(Ac3Start[v]) /\ Len(curDomains[v]) > 1
    /\ SolutionsWithin(curDomains) # {}

(***************************************************************************)
(* Claims about constraints (SpecCon).                                     *)
(***************************************************************************)
SomeUnassigned(c, A) == \E i \in DOMAIN c.variables : ~is_assigned(A, c.variables[i])

AllAssigned(c, A) == \A i \in DOMAIN c.variables : is_assigned(A, c.variables[i])

\* The values at the assigned positions of a scope are pairwise distinct.
AssignedValuesDistinct(c, A) ==
    \A i, j \in DOMAIN c.variables :
        (i < j /\ is_assigned(A, c.variables[i]) /\ is_assigned(A, c.variables[j]))
            => A[c.variables[i]] # A[c.variables[j]]

\* The sum of the values at the first n positions of a fully assigned scope.
RECURSIVE ScopeSum(_, _, _)
ScopeSum(c, A, n) == IF n = 0 THEN 0 ELSE ScopeSum(c, A, n - 1) + A[c.variables[n]]

\* C7: whenever some scope variable of the constraint is unassigned,
\* is_satisfied returns true and the predicate is not evaluated.
C7_UnassignedScopeSatisfied ==
    (satOut # <<>> /\ SomeUnassigned(con, asg))
        => (satOut[1].result = TRUE /\ satOut[1].preds = 0)

\* a sum constraint judged on a partial assignment whose predicate would fail
C7_Witness ==
    /\ satOut # <<>>
    /\ SomeUnassigned(con, asg)
    /\ asg # EmptyAssignment
    /\ ~predicate(con, asg)

\* No variable is listed twice in the scope.
NoRepeatedVariable(c) ==
    \A i, j \in DOMAIN c.variables : i # j => c.variables[i] # c.variables[j]

\* C8 as stated (on scopes that list no variable twice): all_different is
\* satisfied iff the values of the currently assigned scope variables are
\* pairwise distinct.
C8_AsStated ==
    (satOut # <<>> /\ con.kind = "all_different" /\ NoRepeatedVariable(con))
        => (satOut[1].result <=> AssignedValuesDistinct(con, asg))

\* C8 amended: all_different is satisfied iff some scope variable is
\* unassigned or the values at the scope positions are pairwise distinct.
C8_AllDifferent ==
    (satOut # <<>> /\ con.kind = "all_different")
        => (satOut[1].result <=>
                (SomeUnassigned(con, asg) \/ AssignedValuesDistinct(con, asg)))

\* all_different judged satisfied although two assigned variables are equal
C8_Witness ==
    /\ satOut # <<>>
    /\ con.kind = "all_different"
    /\ SomeUnassigned(con, asg)
    /\ ~AssignedValuesDistinct(con, asg)
    /\ satOut[1].result

\* C9: sum is satisfied iff some scope variable is unassigned, or all are
\* assigned and their values add up to the target; a partial sum that
\* already differs from or exceeds the target is still judged satisfied.
C9_Sum ==
    (satOut # <<>> /\ con.kind = "sum")
        => (satOut[1].result <=>
                (\/ SomeUnassigned(con, asg)
                 \/ (AllAssigned(con, asg)
                        /\ ScopeSum(con, asg, Len(con.variables)) = con.target)))

\* a sum constraint judged satisfied on a partial assignment whose partial
\* sum already exceeds the target
C9_Witness ==
    /\ satOut # <<>>
    /\ con.kind = "sum"
    /\ SomeUnassigned(con, asg)
    /\ sum_from(con.variables, asg, 1) > con.target
    /\ satOut[1].result

(***************************************************************************)
(* Claims about domains (SpecDom).                                         *)
(***************************************************************************)
C10_Result ==
    dres # <<>> =>
        LET new == dres[1] IN
        /\ Domain_size(dkind, new) <= Domain_size(dkind, dom)
        /\ \A x \in Values :
              Domain_contains(dkind, new, x) <=>
                  /\ Domain_contains(dkind, dom, x)
                  /\ IF dop.op = "remove" THEN x # dop.value
                     ELSE x \in Range(dop.keep)

\* C10: remove(v) and restrict_to(S) leave the receiver unchanged and
\* return a domain no larger than it that contains exactly the members of
\* the receiver other than v, resp. the members that occur in S.
C10_RemoveRestrictPure ==
    /\ []C10_Result
    /\ [][dres' # <<>> => dom' = dom]_vars

\* a sorted-Vec domain restricted by an unsorted collection with a repeated
\* element, the result being a proper non-empty part of the receiver
C10_Witness ==
    /\ dres # <<>>
    /\ dkind = "SortedVec"
    /\ dop.op = "restrict_to"
    /\ \E i, j \in DOMAIN dop.keep : i < j /\ dop.keep[i] >= dop.keep[j]
    /\ Len(dop.keep) > Cardinality(Range(dop.keep))
    /\ dres[1] # <<>>
    /\ Len(dres[1]) < Len(dom)

\* the domain under test and, after remove / restrict_to, the returned one
DomainsAtHand == {dom} \cup Range(dres)

NoDuplicates(kind, self) ==
    /\ \A vs \in Domain_values(kind, self) : NoTwoEqual(vs)
    /\ Domain_size(kind, self) = Cardinality(Range(self))

\* C11: every domain of every representation, built from any collection
\* and after any run of remove and restrict_to, lists each member once in
\* values() and has size() equal to the number of distinct members.
C11_AsStated == \A d \in DomainsAtHand : NoDuplicates(dkind, d)

\* the same for the three representations that deduplicate on construction
C11_SetBacked ==
    dkind # "Vec" => \A d \in DomainsAtHand : NoDuplicates(dkind, d)

(***************************************************************************)
(* Claims about building a Csp (SpecBuild).                                *)
(***************************************************************************)
ScopesRegistered ==
    \A i \in DOMAIN constraints : \A j \in DOMAIN constraints[i].variables :
        get_domain(constraints[i].variables[j]) # <<>>

UnregisteredIn(c, doms) ==
    \E j \in DOMAIN c.variables : c.variables[j] \notin DOMAIN doms

\* C12: after any run of add_variable and add_constraint every variable in
\* the scope of every stored constraint is registered with a domain and
\* get_variables() lists no name twice; add_constraint on a constraint with
\* an unregistered scope variable returns an error and leaves the
\* constraints and the variables unchanged.
C12_ScopesRegistered ==
    /\ [](ScopesRegistered /\ NoTwoEqual(get_variables)
          /\ Range(get_variables) = DOMAIN domains)
    /\ [][(built'.call = "add_constraint"
             /\ UnregisteredIn(built'.constraint, domains))
          => (~built'.ok /\ UNCHANGED <<constraints, domains, cspVars>>)]_vars

\* a constraint over a registered and an unregistered variable was refused
\* while another constraint is stored
C12_Witness ==
    /\ built.call = "add_constraint"
    /\ ~built.ok
    /\ Len(built.constraint.variables) = 2
    /\ built.constraint.variables[1] \in DOMAIN domains
    /\ built.constraint.variables[2] \notin DOMAIN domains
    /\ constraints # <<>>

\* C13: add_variable with a name that is already registered returns an
\* error and leaves the Csp unchanged: the registered domain is kept, and
\* num_variables and the constraints stay as they were.
C13_DuplicateRefused ==
    [][(built'.call = "add_variable" /\ built'.var \in DOMAIN domains)
       => (~built'.ok /\ UNCHANGED <<domains, cspVars, constraints>>)]_vars

\* a registered variable was offered again with a different domain
C13_Witness ==
    /\ built.call = "add_variable"
    /\ ~built.ok
    /\ built.var \in DOMAIN domains
    /\ \A vs \in Domain_values(domKind, built.domain) : domains[built.var] # vs
    /\ constraints # <<>>

(***************************************************************************)
(* Claims about the heuristics (SpecBT).                                   *)
(***************************************************************************)
\* a call of backtrack / backtrack_limited is about to run its body
AtNode == run \in BacktrackRuns /\ pc = "call"

\* the values x of v's domain for which A with v = x is consistent
ConsistentValues(A, v) == {x \in Range(domains[v]) : is_consistent(assign(A, v, x))}

\* the first variable of get_variables() among the unassigned ones with
\* the fewest consistent values
FewestConsistentValues(A) ==
    LET idx == Unassigned(A)
        n(i) == Cardinality(ConsistentValues(A, cspVars[i]))
    IN  IF idx = {} THEN <<>>
        ELSE <<cspVars[CHOOSE i \in idx :
                   /\ \A j \in idx : n(i) <= n(j)
                   /\ \A j \in idx : j < i => n(i) < n(j)]>>

\* C14: at every node of the backtracking search minimum_remaining_values
\* returns the unassigned variable with the fewest domain values x for
\* which assignment + {v: x} satisfies every constraint, the earliest in
\* get_variables() order among equals, and so the variable that
\* Solver::minimum_remaining_values returns.
C14_AsStated ==
    AtNode =>
        /\ minimum_remaining_values(assignment) = FewestConsistentValues(assignment)
        /\ minimum_remaining_values(assignment) = Solver_minimum_remaining_values(assignment)

\* the two versions agree at every node
C14_VersionsAgree ==
    AtNode =>
        minimum_remaining_values(assignment) = Solver_minimum_remaining_values(assignment)

\* the claim holds where no domain lists a member twice
C14_WithoutRepeats ==
    (AtNode /\ \A v \in DOMAIN domains : NoTwoEqual(domains[v])) =>
        minimum_remaining_values(assignment) = FewestConsistentValues(assignment)

\* the unassigned variables with the fewest consistent values, as
\* positions of get_variables()
FewestCandidates(A) ==
    LET idx == Unassigned(A)
        n(i) == Cardinality(ConsistentValues(A, cspVars[i]))
    IN  {i \in idx : \A j \in idx : n(i) <= n(j)}

\* C15: mrv_degree returns, among the unassigned variables with the
\* minimum count of consistent values, one of the greatest degree score,
\* and of several with that score the first in get_variables() order.
C15_AsStated ==
    AtNode =>
        LET cand == FewestCandidates(assignment) IN
        IF cand = {} THEN mrv_degree(assignment) = <<>>
        ELSE mrv_degree(assignment) =
                 <<cspVars[CHOOSE i \in cand :
                     /\ \A j \in cand : degree_score(assignment, cspVars[i])
                                            >= degree_score(assignment, cspVars[j])
                     /\ \A j \in cand : j < i =>
                            degree_score(assignment, cspVars[i])
                                > degree_score(assignment, cspVars[j])]>>

\* the same over domains without a repeated member, where the counts of
\* the code are the counts of the claim
C15_WithoutRepeats ==
    (\A v \in DOMAIN domains : NoTwoEqual(domains[v])) => C15_AsStated

\* what the code does hold: a candidate of the greatest degree score, and
\* of several the last in get_variables() order
C15_LastMaximum ==
    (AtNode /\ \A v \in DOMAIN domains : NoTwoEqual(domains[v])) =>
        LET cand == FewestCandidates(assignment) IN
        IF cand = {} THEN mrv_degree(assignment) = <<>>
        ELSE mrv_degree(assignment) =
                 <<cspVars[CHOOSE i \in cand :
                     /\ \A j \in cand : degree_score(assignment, cspVars[i])
                                            >= degree_score(assignment, cspVars[j])
                     /\ \A j \in cand : j > i =>
                            degree_score(assignment, cspVars[i])
                                > degree_score(assignment, cspVars[j])]>>

\* the pairs (u, y), u unassigned and not v, y in the domain of u, that
\* A with v = x and u = y makes inconsistent
RuledOutPairs(A, v, x) ==
    {p \in UNION {{<<u, y>> : y \in Range(domains[u])} :
                      u \in {w \in DOMAIN domains : w # v /\ ~is_assigned(A, w)}} :
        ~is_consistent(assign(assign(A, v, x), p[1], p[2]))}

\* the list s sorted ascending by score, equal scores in the order of s
StableSort(s, score(_)) ==
    LET n == Len(s)
        Before(q, p) == score(s[q]) < score(s[p]) \/ (score(s[q]) = score(s[p]) /\ q < p)
        rank == [p \in 1..n |-> Cardinality({q \in 1..n : Before(q, p)}) + 1]
    IN  [k \in 1..n |-> s[CHOOSE p \in 1..n : rank[p] = k]]

LcvAsStated(v, A) ==
    LET score(x) == Cardinality(RuledOutPairs(A, v, x))
    IN  least_constraining_value(v, domains[v], A) = StableSort(domains[v], score)

\* C16: least_constraining_value returns the values of domain.values()
\* sorted ascending by the number of pairs (u, y) they rule out, values of
\* equal score in their order in domain.values().
C16_AsStated ==
    AtNode => \A v \in DOMAIN domains :
                  ~is_assigned(assignment, v) => LcvAsStated(v, assignment)

\* the claim holds where no domain lists a member twice
C16_WithoutRepeats ==
    (\A v \in DOMAIN domains : NoTwoEqual(domains[v])) => C16_AsStated

(***************************************************************************)
(* Claims about the order of the solutions (SpecBT).                       *)
(***************************************************************************)
\* the place of value x in values() of v's domain
ValueRank(v, x) ==
    CHOOSE p \in DOMAIN domains[v] :
        /\ domains[v][p] = x
        /\ \A q \in DOMAIN domains[v] : domains[v][q] = x => p <= q

\* A comes before B in the lexicographic order given by get_variables()
\* and by values() of each domain
LexLess(A, B) ==
    \E k \in DOMAIN cspVars :
        /\ \A j \in 1..(k - 1) : A[cspVars[j]] = B[cspVars[j]]
        /\ ValueRank(cspVars[k], A[cspVars[k]]) < ValueRank(cspVars[k], B[cspVars[k]])

DomainOrderRun ==
    /\ heur = DefaultHeuristics
    /\ Finished("find_all_solutions")

\* C17: with first_unassigned and domain_order the list of
\* find_all_solutions is strictly increasing in the lexicographic order
\* given by get_variables() and values(), and it is the one such list of
\* the solutions of the Csp, so that every run returns it.
C17_AsStated ==
    DomainOrderRun =>
        LET found == results["find_all_solutions"] IN
        /\ \A i, j \in DOMAIN found : i < j => LexLess(found[i], found[j])
        /\ Range(found) = SolutionsWithin(domains)

\* the claim holds where no domain lists a member twice
C17_WithoutRepeats ==
    (\A v \in DOMAIN domains : NoTwoEqual(domains[v])) => C17_AsStated

(***************************************************************************)
(* Claims about the examples.                                              *)
(***************************************************************************)
\* the assignment that gives Q0, Q1, .. the rows listed
Rows(rows) == [v \in DOMAIN rows |-> rows[v]]

\* C18: on create_queens_csp(4) find_all_backtracking returns exactly two
\* solutions, {Q0:1,Q1:3,Q2:0,Q3:2} and {Q0:2,Q1:0,Q2:3,Q3:1}, and
\* is_solution holds for each.
C18_FourQueens ==
    Finished("find_all_solutions") =>
        LET found == results["find_all_solutions"] IN
        /\ Len(found) = 2
        /\ Range(found) = {Rows(<<1, 3, 0, 2>>), Rows(<<2, 0, 3, 1>>)}
        /\ \A k \in DOMAIN found : is_solution(found[k])

\* the run has ended for a Csp whose variables are not iterated in the
\* order of their registration
C18_Witness ==
    /\ Finished("find_all_solutions")
    /\ results["find_all_solutions"] # <<>>
    /\ get_variables # Identity(Queens4)

\* C19: on create_queens_csp(8) backtrack_search returns
\* {Q0:0,Q1:4,Q2:7,Q3:5,Q4:2,Q5:6,Q6:1,Q7:3}, whatever the order in which
\* get_variables() iterates the variables.
C19_AsStated ==
    Finished("find_solution") =>
        results["find_solution"] = <<Rows(<<0, 4, 7, 5, 2, 6, 1, 3>>)>>

\* the solution named is found when get_variables() lists Q0..Q7 in the
\* order of their registration
C19_RegistrationOrder ==
    get_variables = Identity(Queens8) => C19_AsStated

\* the preprocessing ac3 of ArcConsistencySolver::solve is running or has
\* just returned
Preprocessing == run = "ac_solve" /\ stack = <<>> /\ pc \in {"ac3", "ac3ret"}

\* C20: on the 2-coloring of the triangle backtrack_search, mrv_search,
\* lcv_search, mrv_lcv_search, ForwardCheckingSolver::solve and
\* ArcConsistencySolver::solve return none, and the preprocessing ac3
\* removes no value: the three domains keep their two values.
C20_TriangleUnsolvable ==
    /\ \A e \in {"find_solution", "fc_solve", "ac_solve"} :
           Finished(e) => results[e] = <<>>
    /\ Preprocessing =>
           /\ \A v \in DOMAIN curDomains :
                  /\ Domain_size(domKind, curDomains[v]) = Len(ColoringDomain)
                  /\ Range(curDomains[v]) = Range(ColoringDomain)
           /\ pc = "ac3ret" => ret

\* the three solvers have ended, the search having run with both
\* heuristics over hash sets
C20_Witness ==
    /\ \A e \in {"find_solution", "fc_solve", "ac_solve"} : Finished(e)
    /\ heur.select = "minimum_remaining_values"
    /\ heur.order = "least_constraining_value"
    /\ domKind = "HashSet"
    /\ get_variables # Identity(Len(ColoringVariables))

(***************************************************************************)
(* Claims about boundary Csps and about propagation (SpecSolvers, SpecAC,  *)
(* SpecFC, SpecBT).                                                        *)
(***************************************************************************)
\* C21: on a Csp with no variable and no constraint, find_solution,
\* ForwardCheckingSolver::solve and ArcConsistencySolver::solve each return
\* the empty assignment, not none, and find_all_solutions returns a list
\* that holds exactly one empty assignment.
C21_EmptyCsp ==
    (num_variables = 0 /\ constraints = <<>>) =>
        \A e \in {"find_solution", "fc_solve", "ac_solve", "find_all_solutions"} :
            Finished(e) => results[e] = <<EmptyAssignment>>

C21_Witness ==
    /\ num_variables = 0
    /\ constraints = <<>>
    /\ Finished("find_solution")
    /\ Finished("fc_solve")

C21_WitnessArcConsistency == num_variables = 0 /\ Finished("ac_solve")

C21_WitnessBacktracking ==
    num_variables = 0 /\ Finished("find_solution") /\ Finished("find_all_solutions")

\* C22: on a Csp in which some registered variable has an empty domain
\* every solver returns no solution: none for find_solution,
\* ForwardCheckingSolver::solve and ArcConsistencySolver::solve, the empty
\* list for find_all_solutions and find_limited_solutions, whatever the
\* other variables, domains and constraints are.
SomeDomainEmpty == \E v \in DOMAIN domains : Domain_is_empty(domKind, domains[v])

C22_EmptyDomainNoSolution ==
    SomeDomainEmpty => \A e \in DOMAIN results : results[e] = <<>>

C22_Witness ==
    /\ SomeDomainEmpty
    /\ \E e \in {"find_all_solutions", "fc_solve", "ac_solve"} : Finished(e)
    /\ constraints # <<>>
    /\ num_variables = MaxVars

C22_WitnessValueTried ==
    SomeDomainEmpty /\ Finished("find_all_solutions") /\ calls.tried > 1

\* every value of xi in doms has a value of xj in doms with which it
\* satisfies c
Supported(doms, c, xi, xj) ==
    \A k \in DOMAIN doms[xi] :
        \E l \in DOMAIN doms[xj] :
            is_satisfied(c, assign(assign(EmptyAssignment, xi, doms[xi][k]), xj, doms[xj][l]))

BinaryConstraints == {i \in DOMAIN constraints : Len(constraints[i].variables) = 2}

ArcConsistent(doms) ==
    \A i \in BinaryConstraints :
        LET vs == constraints[i].variables
        IN  /\ Supported(doms, constraints[i], vs[1], vs[2])
            /\ Supported(doms, constraints[i], vs[2], vs[1])

\* two binary constraints have the same pair of variables
SharedPair ==
    \E i, j \in BinaryConstraints :
        i # j /\ Range(constraints[i].variables) = Range(constraints[j].variables)

Ac3Succeeded == pc = "ac3ret" /\ ret

\* C23 as stated: whenever ac3 returns success, for every binary constraint
\* c with scope (xi, xj), in both directions, every value left in the
\* domain of xi has a value in the domain of xj with which c is satisfied,
\* also when several binary constraints have the same pair of variables.
C23_AsStated == Ac3Succeeded => ArcConsistent(curDomains)

\* what the code does keep: the domain map is arc-consistent on success
\* when no two binary constraints have the same pair of variables
C23_OneConstraintPerPair == (Ac3Succeeded /\ ~SharedPair) => ArcConsistent(curDomains)

C23_WitnessOneConstraintPerPair ==
    /\ Ac3Succeeded
    /\ ~SharedPair
    /\ Cardinality(BinaryConstraints) = MaxCons
    /\ \E v \in DOMAIN domains : 0 < Len(curDomains[v]) /\ Len(curDomains[v]) < Len(domains[v])

\* C24 as stated: every arc on the queue of ac3 belongs to a constraint
\* with exactly two variables: the queue starts with both arcs of each
\* binary constraint and after a revision only arcs of binary constraints
\* are pushed; arcs of other constraints are never pushed nor revised.
C24_AsStated == \A k \in DOMAIN queue : queue[k][3] \in BinaryConstraints

\* what the code does keep: every arc pushed after a revision is
\* (xk, xi, c) with c a constraint involving the revised xi and xk a
\* variable of c other than xi and xj, and revising an arc of a constraint
\* that is not binary removes nothing
C24_NonBinaryArcsRemoveNothing ==
    [][(pc = "ac3" /\ queue # <<>>) =>
          LET xi == Head(queue)[1]
              xj == Head(queue)[2]
              pushed == SubSeq(queue', Len(queue), Len(queue'))
          IN  /\ Head(queue)[3] \notin BinaryConstraints => curDomains' = curDomains
              /\ \A k \in DOMAIN pushed :
                     /\ pushed[k][2] = xi
                     /\ pushed[k][1] \notin {xi, xj}
                     /\ involves(constraints[pushed[k][3]], xi)
                     /\ involves(constraints[pushed[k][3]], pushed[k][1])]_vars

C24_WitnessNonBinaryRevised ==
    /\ pc = "ac3"
    /\ queue # <<>>
    /\ Head(queue)[3] \notin BinaryConstraints
    /\ stack # <<>>

\* the total number of entries of a domain map
RECURSIVE TotalSize(_, _)
TotalSize(doms, v) == IF v > Len(doms) THEN 0 ELSE Len(doms[v]) + TotalSize(doms, v + 1)

\* C25: ac3 always terminates: a turn of its loop whose revise reports a
\* revision makes the domain of xi strictly smaller and leaves the others
\* alone, a turn without a revision pushes no arc and takes one off the
\* queue, and every ac3 that has started returns.
C25_Ac3Terminates ==
    /\ [][(pc = "ac3" /\ queue # <<>>) =>
             LET xi == Head(queue)[1]
             IN  \/ /\ curDomains' = curDomains
                    /\ queue' = Tail(queue)
                 \/ /\ Len(curDomains'[xi]) < Len(curDomains[xi])
                    /\ \A v \in DOMAIN curDomains : v # xi => curDomains'[v] = curDomains[v]
                    /\ TotalSize(curDomains', 1) < TotalSize(curDomains, 1)]_vars
    /\ (pc = "ac3") ~> (pc = "ac3ret")

C25_Witness ==
    /\ pc = "ac3ret"
    /\ Len(stack) > 1
    /\ ret
    /\ \E v \in DOMAIN domains :
           v # Top.var /\ Len(curDomains[v]) < Len(Top.saved[1][v])

\* the frame k of the stack is in the middle of a turn of its loop: the
\* assignment and the domain map the turn works on
Trying(k) == assign(stack[k].entry.assignment, stack[k].var, stack[k].values[stack[k].i])

\* what a call that returns at this step was entered with
ReturningEntry ==
    IF pc = "loop" THEN Top.entry ELSE [assignment |-> assignment, domains |-> curDomains]

\* C26: in the MAC search a value that passes is_consistent has the domain
\* map saved as it was at entry, the domain of the variable restricted to
\* the value and ac3 run again; when ac3 or the recursive call has failed
\* the domain map and the assignment are back at their values at entry
\* before the next value is tried; and whenever backtrack_ac returns false
\* the domain map and the assignment are what the call was entered with.
C26_MacRestores ==
    /\ [](run = "ac_solve" =>
            /\ (pc = "loop") =>
                   /\ assignment = Top.entry.assignment
                   /\ curDomains = Top.entry.domains
            /\ (pc \in {"ac3", "ac3ret"} /\ stack # <<>>) =>
                   /\ assignment = Trying(Len(stack))
                   /\ is_consistent(assignment)
                   /\ Top.saved = <<Top.entry.domains>>
                   /\ Range(curDomains[Top.var]) \subseteq {Top.values[Top.i]}
            /\ \A k \in 1..(Len(stack) - 1) :
                   /\ stack[k].saved = <<stack[k].entry.domains>>
                   /\ stack[k + 1].entry.assignment = Trying(k))
    /\ [][(run = "ac_solve" /\ pc # "ret" /\ pc' = "ret" /\ ~ret') =>
              /\ assignment' = ReturningEntry.assignment
              /\ curDomains' = ReturningEntry.domains]_vars

C26_Witness ==
    /\ run = "ac_solve"
    /\ pc = "loop"
    /\ Len(stack) = 1
    /\ calls.tried > Top.i
    /\ Len(curDomains[Top.var]) > 1
    /\ constraints # <<>>

\* C27: whenever backtrack_fc returns failure the current domains and the
\* assignment are what the call was entered with (between two turns of its
\* loop they are too, every turn undoing what it did), and a value that
\* is_consistent rejects leaves the current domains untouched.
C27_FcRestores ==
    /\ [](run = "fc_solve" =>
            /\ (pc = "loop") =>
                   /\ assignment = Top.entry.assignment
                   /\ curDomains = Top.entry.domains
            /\ \A k \in 1..(Len(stack) - 1) :
                   /\ stack[k].saved = <<stack[k].entry.domains>>
                   /\ stack[k + 1].entry.assignment = Trying(k))
    /\ [][(run = "fc_solve" /\ pc # "ret" /\ pc' = "ret" /\ ~ret') =>
              /\ assignment' = ReturningEntry.assignment
              /\ curDomains' = ReturningEntry.domains]_vars
    /\ [][(run = "fc_solve" /\ pc = "loop" /\ Top.i <= Len(Top.values)
              /\ ~is_consistent(Trying(Len(stack)))) =>
              /\ curDomains' = curDomains
              /\ assignment' = assignment
              /\ pc' = "loop"]_vars

C27_Witness ==
    /\ run = "fc_solve"
    /\ pc = "loop"
    /\ Len(stack) = 1
    /\ calls.tried > Top.i
    /\ constraints # <<>>
    /\ num_variables = MaxVars

\* a recursive call has failed below domains that forward_check has pruned
C27_WitnessPruned ==
    /\ run = "fc_solve"
    /\ pc = "ret"
    /\ ~ret
    /\ Len(stack) > 1
    /\ \E v \in DOMAIN domains : Len(curDomains[v]) < Len(Top.saved[1][v])

\* the unassigned variables other than v in the scope of a constraint
\* involving v, under the assignment A
Neighbours(A, v) ==
    {u \in DOMAIN domains :
        /\ u # v
        /\ ~is_assigned(A, u)
        /\ \E i \in DOMAIN constraints :
               involves(constraints[i], v) /\ involves(constraints[i], u)}

\* the values of u in doms that satisfy, with A, every constraint that
\* involves both v and u
Filtered(A, v, u, doms) ==
    {y \in Range(doms[u]) :
        \A i \in DOMAIN constraints :
            (involves(constraints[i], v) /\ involves(constraints[i], u)) =>
                is_satisfied(constraints[i], assign(A, u, y))}

\* C28: after forward_check for the newly assigned v has returned success,
\* for every constraint c involving v and every unassigned u other than v
\* in the scope of c, every value left in current_domains[u] satisfies c
\* together with the assignment; and forward_check reports a wipeout
\* exactly when the filtering would leave such a u without a value.
C28_ForwardCheckFilters ==
    /\ []((run = "fc_solve" /\ pc = "call" /\ stack # <<>>) =>
             \A i \in DOMAIN constraints, u \in DOMAIN domains :
                 (/\ involves(constraints[i], Top.var)
                  /\ involves(constraints[i], u)
                  /\ u # Top.var
                  /\ ~is_assigned(assignment, u)) =>
                     \A k \in DOMAIN curDomains[u] :
                         is_satisfied(constraints[i],
                                      assign(assignment, u, curDomains[u][k])))
    /\ [][(/\ run = "fc_solve"
           /\ pc = "loop"
           /\ Top.i <= Len(Top.values)
           /\ is_consistent(Trying(Len(stack)))) =>
              LET A == Trying(Len(stack))
                  wipeout == \E u \in Neighbours(A, Top.var) :
                                 Filtered(A, Top.var, u, curDomains) = {}
              IN  /\ (pc' = "call") <=> ~wipeout
                  /\ (pc' = "call") =>
                         \A u \in DOMAIN domains :
                             Range(curDomains'[u]) =
                                 IF u \in Neighbours(A, Top.var)
                                 THEN Filtered(A, Top.var, u, curDomains)
                                 ELSE Range(curDomains[u])]_vars

C28_Witness ==
    /\ run = "fc_solve"
    /\ pc = "call"
    /\ stack # <<>>
    /\ Cardinality(Neighbours(assignment, Top.var)) > 1
    /\ \E u \in Neighbours(assignment, Top.var) :
           /\ Len(curDomains[u]) < Len(Top.saved[1][u])
           /\ Len(curDomains[u]) > 1

\* forward_check has reported a wipeout for a value is_consistent accepts
C28_WitnessWipeout ==
    /\ run = "fc_solve"
    /\ pc = "loop"
    /\ Top.i <= Len(Top.values)
    /\ is_consistent(Trying(Len(stack)))
    /\ \E u \in Neighbours(Trying(Len(stack)), Top.var) :
           Filtered(Trying(Len(stack)), Top.var, u, curDomains) = {}

\* C29: in backtrack and backtrack_limited every recursive call that
\* returns without the stop signal leaves the working assignment as it was
\* on entry to that call (between two turns of a loop it is the entry
\* assignment of that call too), so when find_all_solutions finishes the
\* working assignment is empty again.
C29_BacktrackRestores ==
    /\ [](run \in BacktrackRuns =>
            /\ (pc = "loop") => assignment = Top.entry.assignment
            /\ \A k \in 1..(Len(stack) - 1) : stack[k + 1].entry.assignment = Trying(k)
            /\ (run = "find_all_solutions" /\ stack = <<>> /\ pc \in {"ret", "idle"}) =>
                   assignment = EmptyAssignment)
    /\ [][(run \in BacktrackRuns /\ pc # "ret" /\ pc' = "ret" /\ ~ret') =>
              assignment' = ReturningEntry.assignment]_vars

C29_Witness ==
    /\ run = "find_all_solutions"
    /\ pc = "idle"
    /\ Finished("find_all_solutions")
    /\ assignment = EmptyAssignment
    /\ Len(results["find_all_solutions"]) > 1
    /\ calls.tried > MaxVars + 1
    /\ heur.order = "least_constraining_value"

\* C30: at every entry to a backtrack_ac call of the MAC search every
\* assigned variable w has the domain {assignment[w]} in the current domain
\* map, and the current domain of every variable is a subset of the domain
\* the Csp declares for it.
C30_MacDomains ==
    (run = "ac_solve" /\ pc = "call") =>
        /\ \A w \in DOMAIN assignment : Range(curDomains[w]) = {assignment[w]}
        /\ \A v \in DOMAIN domains : Range(curDomains[v]) \subseteq Range(domains[v])

C30_Witness ==
    /\ run = "ac_solve"
    /\ pc = "call"
    /\ Len(stack) = 2
    /\ size(assignment) = 2
    /\ \A w \in DOMAIN assignment : Len(domains[w]) > 1
    /\ \E v \in DOMAIN domains :
           /\ ~is_assigned(assignment, v)
           /\ Len(curDomains[v]) < Len(domains[v])

\* over domains without a repeated member the domain of an assigned
\* variable has size one
C30_SizeOneWithoutRepeats ==
    (run = "ac_solve" /\ pc = "call" /\ \A v \in DOMAIN domains : NoTwoEqual(domains[v])) =>
        \A w \in DOMAIN assignment : curDomains[w] = <<assignment[w]>>

====
